---- MODULE Spec2Model ----
(***************************************************************************)
(* Borrow / return coordination of the library backend.                    *)
(*                                                                         *)
(* The Borrow service (services/borrow/internal/service.go) drives the     *)
(* Book service (services/book/internal/service.go), the Collection        *)
(* service (services/collections/internal/service.go), its own document    *)
(* store and the shared cache.  Every handler is cut at its downstream     *)
(* calls: one action per store / RPC / cache round trip, so that calls     *)
(* running on different tasks interleave exactly where the code can be     *)
(* pre-empted.  Every downstream call may fail; a failed call has no       *)
(* effect on the store it addressed.                                       *)
(***************************************************************************)
EXTENDS Integers, Sequences, FiniteSets, TLC

\* ------------------------------------------------------------------ bounds
MaxBorrows == 2          \* Borrow rows ever inserted in one behaviour

\* ------------------------------------------------------------- universes
Procs    == {"p1", "p2"}            \* request tasks of the Borrow service
BookIds  == {"b1", "b2"}
CollIds  == {"c1", "c2"}            \* c1 owns b1 and b2, c2 owns no book
UserIds  == {"u1"}
UnknownId == MaxBorrows + 1         \* an id no Borrow row ever gets
BorrowIds == 1 .. UnknownId

None      == "none"
ZeroId    == "000000000000000000000000"   \* primitive.ObjectID{}.Hex()
NewUserId == "generated"                  \* a primitive.NewObjectID()
TTLMember == "3600000000000"              \* time.Hour as go-redis writes it
NoDate    == "nil"                        \* ReturnDate == nil
Date      == "now"                        \* a time.Now() formatted value
NoErr     == "nil"
Created   == "2024-01-01T00:00:00Z"      \* created_at of a stored row
ZeroTime  == "0001-01-01T00:00:00Z"      \* time.Time{}

StatusCodes == {"OK", "NotFound", "FailedPrecondition", "Aborted", "Internal",
                "Canceled", "DeadlineExceeded"}

VARIABLES
    bookStore,        \* collection "book":  id -> [collection_id, is_borrowed]
    collectionStore,  \* collection "collections": id -> [name, author,
                      \*   total_books]
    borrowStore,      \* collection "borrow_history": sequence of Borrow rows
    availableBooks,   \* cache sets "available_books:<collectionId>"
    collectionCache,  \* cache keys "collection:<id>": payload or NoEntry
    frame             \* per task: the running handler's locals

\* the API gateway's list batcher (api-gateway/internal/handler)
VARIABLES
    batcher,          \* ReqBatcher: kind, pending, timer; crashed process
    flushes,          \* the flush goroutines started so far
    waiters,          \* the GetBatch calls made so far
    calls             \* downstream list calls issued so far

\* the Book and Collection services called directly
VARIABLES
    bookCache,        \* cache keys "book:<id>": payload or NoEntry
    svc               \* the last call served and its response

\* the API gateway's rate limiter (RateLimitingMiddleware)
VARIABLES
    limiter,          \* requestCounts, lastReset; resets: tables made so far
    clock,            \* what time.Now() returns
    arrivals          \* the requests that entered the middleware so far

\* the catalogue: Collection and Book rows written through their services
VARIABLES
    tasks,            \* handlers and background goroutines, running or done
    minted            \* the Book ids inserted so far

borrowVars  == <<bookStore, collectionStore, borrowStore, availableBooks,
                 collectionCache, frame>>
gatewayVars == <<batcher, flushes, waiters, calls>>
serviceVars == <<bookCache, svc>>
limiterVars == <<limiter, clock, arrivals>>
catalogVars == <<tasks, minted>>

vars == <<bookStore, collectionStore, borrowStore, availableBooks,
          collectionCache, frame, batcher, flushes, waiters, calls,
          bookCache, svc, limiter, clock, arrivals, tasks, minted>>

stores == <<bookStore, collectionStore, borrowStore>>

\* ------------------------------------------------------------ model types
NoBook   == [Id |-> None, CollectionId |-> None, IsBorrowed |-> FALSE]
NoBorrow == [Id |-> 0, BookId |-> None, CollectionId |-> None,
             ReturnDate |-> NoDate]
\* the zero value of model.Borrow that Find hands back next to an error
ZeroBorrow == [Id |-> 0, BookId |-> ZeroId, CollectionId |-> ZeroId,
               ReturnDate |-> NoDate]
NoReq    == [op |-> None, CollectionId |-> None, UserId |-> None,
             BorrowId |-> 0]
NoResp   == [status |-> None, Id |-> 0, BookId |-> None]

NoPre    == [avail |-> {}, free |-> {}, rows |-> 0]

\* primitive.ObjectIDFromHex succeeds on the member
IsObjectIdHex(m) == m # TTLMember

IdleFrame ==
    [pc            |-> "idle",
     gc            |-> "-",        \* goroutine of getCollection
     gb            |-> "-",        \* goroutine of getBook
     in            |-> NoReq,      \* the request
     ctx           |-> NoErr,      \* ctx.Err() of the request's context
     collectionErr |-> NoErr,
     bookErr       |-> NoErr,
     book          |-> NoBook,     \* fetchBookAndCollection's result
     source        |-> None,       \* "cache" or "store": where book came from
     borrowRecord  |-> NoBorrow,   \* ReturnBook's loaded record
     newBorrow     |-> 0,          \* id of the row this call inserted
     issued        |-> {},         \* store writes this call has issued
     failed        |-> {},         \* downstream calls that returned an error
     pre           |-> NoPre,      \* what BorrowBook could find at its start
     resp          |-> NoResp]

\* ----------------------------------------------------- gateway, at rest
NoTimer == "nil"                          \* ReqBatcher.timer == nil

\* NewReqBatcher: nothing pending, no timer
IdleBatcher(kind) ==
    [kind |-> kind, pending |-> <<>>, timer |-> NoTimer, crashed |-> FALSE]

GatewayIdle ==
    /\ batcher = IdleBatcher("collection")
    /\ flushes = <<>>
    /\ waiters = <<>>
    /\ calls = <<>>

\* ---------------------------------------------------- services, at rest
\* GET of a key that is not set (redis.Nil)
NoEntry  == [set |-> FALSE, json |-> <<>>]
NoEntity == [Id |-> None]

NoCall == [op |-> None, kind |-> None, id |-> None, failed |-> {},
           before |-> NoEntry, source |-> None, status |-> None,
           entity |-> NoEntity]

ServiceIdle ==
    /\ bookCache = [b \in BookIds |-> NoEntry]
    /\ svc = NoCall

\* ------------------------------------------- limiter, catalogue: at rest
ClientIPs == {"ip1", "ip2"}

\* RateLimitingMiddleware is built: an empty table, lastReset = now
LimiterIdle ==
    /\ limiter = [requestCounts |-> [ip \in ClientIPs |-> 0],
                  lastReset |-> 0, resets |-> 0]
    /\ clock = 0
    /\ arrivals = <<>>

\* calls and goroutines running at a time
Workers == {1, 2}

NoTask == [op |-> None, pc |-> "done", id |-> None, name |-> None,
           author |-> None, amount |-> 0, books |-> {}, retries |-> 0,
           attempts |-> 0, before |-> NoEntry, cached |-> NoEntity,
           failed |-> {}, status |-> None, resp |-> None]

CatalogIdle ==
    /\ tasks = [w \in Workers |-> NoTask]
    /\ minted = {}

Elsewhere == LimiterIdle /\ CatalogIdle

\* ------------------------------------------------------------------ cache
\* redis SADD key member...: go-redis passes every variadic argument as a
\* member, so SAdd(ctx, key, id, time.Hour) adds the id and the duration.
SAdd(cache, key, members) == [cache EXCEPT ![key] = @ \cup members]
SRem(cache, key, member)  == [cache EXCEPT ![key] = @ \ {member}]
Del(cache, key)           == [cache EXCEPT ![key] = {}]
Exists(cache, key)        == cache[key] # {}

CacheFaults == [exists : BOOLEAN, op : BOOLEAN]

\* updateCache with a "remove" that never reaches SREM
updateCacheNoRemove(cache, bookId, collectionId, action, f) ==
    LET afterCheck == IF f.exists THEN Del(cache, collectionId) ELSE cache
    IN  IF action = "put"
        THEN IF f.op THEN Del(afterCheck, collectionId)
             ELSE SAdd(afterCheck, collectionId, {bookId, TTLMember})
        ELSE afterCheck

\* updateCache of the Borrow service.  f.exists: the EXISTS round trip
\* fails; f.op: the SADD / SREM round trip fails.  The DEL that follows an
\* error reaches the cache.
updateCache(cache, bookId, collectionId, action, f) ==
    LET afterCheck   == IF f.exists THEN Del(cache, collectionId) ELSE cache
        existInCache == IF f.exists THEN FALSE
                        ELSE Exists(cache, collectionId)
    IN  IF existInCache
        THEN IF action = "put"
             THEN IF f.op THEN Del(afterCheck, collectionId)
                  ELSE SAdd(afterCheck, collectionId, {bookId, TTLMember})
             ELSE IF f.op THEN Del(afterCheck, collectionId)
                  ELSE SRem(afterCheck, collectionId, bookId)
        ELSE IF action = "put"
             THEN IF f.op THEN Del(afterCheck, collectionId)
                  ELSE SAdd(afterCheck, collectionId, {bookId, TTLMember})
             ELSE afterCheck

\* ------------------------------------------------------------- Book store
\* BaseRepository.UpdateOne through BookServiceServer.UpdateBook with the
\* payload {is_borrowed}: FindOneAndUpdate by _id; a missing row is
\* ErrNoDocuments, which UpdateBook answers without an error.
UpdateBook(store, id, borrowed) ==
    IF id \in DOMAIN store
    THEN [store EXCEPT ![id].is_borrowed = borrowed]
    ELSE store

\* rows matching {collection_id, is_borrowed: false}
AvailableInStore(store, collectionId) ==
    {b \in DOMAIN store : /\ store[b].collection_id = collectionId
                          /\ ~store[b].is_borrowed}

\* ----------------------------------------------------------- Borrow store
OpenBorrows(store, bookId) ==
    {i \in DOMAIN store : /\ store[i].BookId = bookId
                          /\ store[i].ReturnDate = NoDate}

InFlightBorrows == {p \in Procs : frame[p].in.op = "BorrowBook"}

\* ---------------------------------------------------- entities, payloads
Kinds == {"book", "collection"}

Ids(kind) == IF kind = "book" THEN BookIds ELSE CollIds

HasRow(books, collections, kind, id) ==
    IF kind = "book" THEN id \in DOMAIN books ELSE id \in DOMAIN collections

\* the row of the store decoded into model.Book / model.Collection
Entity(books, collections, kind, id) ==
    IF kind = "book"
    THEN [Id |-> id, CollectionId |-> books[id].collection_id,
          IsBorrowed |-> books[id].is_borrowed, CreatedAt |-> Created]
    ELSE [Id |-> id, Name |-> collections[id].name,
          Author |-> collections[id].author,
          TotalBooks |-> collections[id].total_books]

\* json.Marshal of the entity: the object ids as hex strings, the flag as
\* the literal true / false, the counter as a number, the time as text
Marshal(kind, e) ==
    IF kind = "book"
    THEN <<e.Id, e.CollectionId, IF e.IsBorrowed THEN "true" ELSE "false",
           e.CreatedAt>>
    ELSE <<e.Id, e.Name, e.Author, e.TotalBooks>>

\* a payload json.Unmarshal rejects
Undecodable == <<"{">>

\* json.Unmarshal returns no error
Decodes(kind, json) == json # Undecodable

\* json.Unmarshal into the entity
Unmarshal(kind, json) ==
    IF kind = "book"
    THEN [Id |-> json[1], CollectionId |-> json[2],
          IsBorrowed |-> (json[3] = "true"), CreatedAt |-> json[4]]
    ELSE [Id |-> json[1], Name |-> json[2], Author |-> json[3],
          TotalBooks |-> json[4]]

\* SET kind:id payload
Entry(kind, e) == [set |-> TRUE, json |-> Marshal(kind, e)]

\* GET kind:id
Cached(bcache, ccache, kind, id) ==
    IF kind = "book" THEN bcache[id] ELSE ccache[id]

\* GetCachedData: the entity, when GET and decoding both succeed
CacheHit(kind, entry) == entry.set /\ Decodes(kind, entry.json)

\* --------------------------------------------------------------- initial
\* a library that has been stocked and never lent from: collection c1 with
\* its copies, no Borrow row, nothing cached
Stocked(books, collections) ==
    /\ bookStore = [b \in books |->
                      [collection_id |-> "c1", is_borrowed |-> FALSE]]
    /\ collectionStore = [c \in collections |->
          [name |-> IF c = "c1" THEN "n1" ELSE "n2", author |-> "a1",
           total_books |-> IF c = "c1" THEN Cardinality(books) ELSE 0]]
    /\ borrowStore = <<>>
    /\ availableBooks = [c \in CollIds \cup {ZeroId} |-> {}]
    /\ collectionCache = [c \in CollIds |-> NoEntry]
    /\ frame = [p \in Procs |-> IdleFrame]

\* one copy, lent by concurrent tasks
Init == Stocked({"b1"}, {"c1"}) /\ GatewayIdle /\ ServiceIdle /\ Elsewhere
\* two copies and an empty second collection, calls one after the other
InitSeq ==
    Stocked(BookIds, CollIds) /\ GatewayIdle /\ ServiceIdle /\ Elsewhere

Snapshot(collectionId) ==
    [avail |-> availableBooks[collectionId],
     free  |-> AvailableInStore(bookStore, collectionId),
     rows  |-> Len(borrowStore)]

\* the request's context is done: every call made with it returns its error
Done(p) == frame[p].ctx # NoErr

Return(p, code, id, bookId) ==
    [frame[p] EXCEPT !.pc = "returned",
                     !.resp = [status |-> code, Id |-> id, BookId |-> bookId]]

\* ------------------------------------------------------------ BorrowBook
\* BorrowBook is called: fetchBookAndCollection starts both goroutines.
BorrowBook(p, collectionId, userId) ==
    /\ frame[p].pc = "idle"
    /\ Len(borrowStore) + Cardinality(InFlightBorrows) < MaxBorrows
    /\ frame' = [frame EXCEPT ![p] =
          [IdleFrame EXCEPT !.pc = "fetch", !.gc = "run", !.gb = "cached",
                            !.in = [op |-> "BorrowBook",
                                    CollectionId |-> collectionId,
                                    UserId |-> userId, BorrowId |-> 0],
                            !.pre = Snapshot(collectionId)]]
    /\ UNCHANGED <<stores, availableBooks, collectionCache>>
    /\ UNCHANGED <<gatewayVars, serviceVars, limiterVars, catalogVars>>

\* goroutine 1: getCollection -> CollectionService.FindCollectionById.
\* A cached payload answers; otherwise the store is read and a found row is
\* cached.  A missing row comes back as success=false without an error and
\* without a collection, which getCollection reports as Internal.
getCollection(p, rpcFails) ==
    LET id == frame[p].in.CollectionId IN
    /\ frame[p].pc = "fetch" /\ frame[p].gc = "run"
    /\ IF rpcFails \/ Done(p)
       THEN /\ frame' = [frame EXCEPT ![p].gc = "done",
                                      ![p].collectionErr = "Internal",
                                      ![p].failed = @ \cup {"getCollection"}]
            /\ UNCHANGED collectionCache
       ELSE IF CacheHit("collection", collectionCache[id])
       THEN /\ frame' = [frame EXCEPT ![p].gc = "done"]
            /\ UNCHANGED collectionCache
       ELSE IF id \in DOMAIN collectionStore
       THEN /\ frame' = [frame EXCEPT ![p].gc = "done"]
            /\ collectionCache' = [collectionCache EXCEPT ![id] =
                  Entry("collection",
                        Entity(bookStore, collectionStore, "collection", id))]
       ELSE /\ frame' = [frame EXCEPT ![p].gc = "done",
                                      ![p].collectionErr = "Internal"]
            /\ UNCHANGED collectionCache
    /\ UNCHANGED <<stores, availableBooks>>
    /\ UNCHANGED <<gatewayVars, serviceVars, limiterVars, catalogVars>>

\* goroutine 2, first round trip: BookService.GetAvailableBook reads the
\* cached set (SMEMBERS) and picks a member at random.  The set is not
\* modified.  A member that is not a hex object id is a miss.
getCachedAvailableBook(p, cacheFails) ==
    LET c == frame[p].in.CollectionId IN
    /\ frame[p].pc = "fetch" /\ frame[p].gb = "cached"
    /\ \/ /\ Done(p)
          /\ frame' = [frame EXCEPT ![p].gb = "done",
                         ![p].bookErr = frame[p].ctx,
                         ![p].failed = @ \cup {"GetAvailableBook"}]
       \/ /\ ~Done(p)
          /\ cacheFails \/ availableBooks[c] = {}
          /\ frame' = [frame EXCEPT ![p].gb = "find"]
       \/ /\ ~Done(p)
          /\ ~cacheFails
          /\ \E m \in availableBooks[c] :
                IF IsObjectIdHex(m)
                THEN frame' = [frame EXCEPT ![p].gb = "reserve",
                                 ![p].source = "cache",
                                 ![p].book = [Id |-> m, CollectionId |-> c,
                                              IsBorrowed |-> FALSE]]
                ELSE frame' = [frame EXCEPT ![p].gb = "find"]
    /\ UNCHANGED <<stores, availableBooks, collectionCache>>
    /\ UNCHANGED <<gatewayVars, serviceVars, limiterVars, catalogVars>>

\* GetAvailableBook without the ErrNoDocuments case: an empty result is
\* reported like any other store error
GetAvailableBookFindNoNotFound(p, storeFails) ==
    LET c == frame[p].in.CollectionId IN
    /\ frame[p].pc = "fetch" /\ frame[p].gb = "find"
    /\ IF storeFails
       THEN frame' = [frame EXCEPT ![p].gb = "done",
                                   ![p].bookErr = "Internal",
                                   ![p].failed = @ \cup {"Find"}]
       ELSE IF AvailableInStore(bookStore, c) = {}
       THEN frame' = [frame EXCEPT ![p].gb = "done",
                                   ![p].bookErr = "Internal"]
       ELSE \E b \in AvailableInStore(bookStore, c) :
               frame' = [frame EXCEPT ![p].gb = "sadd",
                           ![p].source = "store",
                           ![p].book = [Id |-> b, CollectionId |-> c,
                                        IsBorrowed |-> FALSE]]
    /\ UNCHANGED <<stores, availableBooks, collectionCache>>
    /\ UNCHANGED <<gatewayVars, serviceVars, limiterVars, catalogVars>>

\* GetAvailableBook after a miss: Service.Find({collection_id,
\* is_borrowed: false}); any matching row may be the one returned.
GetAvailableBookFind(p, storeFails) ==
    LET c == frame[p].in.CollectionId IN
    /\ frame[p].pc = "fetch" /\ frame[p].gb = "find"
    /\ IF Done(p)
       THEN frame' = [frame EXCEPT ![p].gb = "done",
                                   ![p].bookErr = frame[p].ctx,
                                   ![p].failed = @ \cup {"GetAvailableBook"}]
       ELSE IF storeFails
       THEN frame' = [frame EXCEPT ![p].gb = "done",
                                   ![p].bookErr = "Internal",
                                   ![p].failed = @ \cup {"Find"}]
       ELSE IF AvailableInStore(bookStore, c) = {}
       THEN frame' = [frame EXCEPT ![p].gb = "done",
                                   ![p].bookErr = "NotFound"]
       ELSE \E b \in AvailableInStore(bookStore, c) :
               frame' = [frame EXCEPT ![p].gb = "sadd",
                           ![p].source = "store",
                           ![p].book = [Id |-> b, CollectionId |-> c,
                                        IsBorrowed |-> FALSE]]
    /\ UNCHANGED <<stores, availableBooks, collectionCache>>
    /\ UNCHANGED <<gatewayVars, serviceVars, limiterVars, catalogVars>>

\* GetAvailableBook after the store read: SAdd(key, id, time.Hour); an
\* error is only logged.
GetAvailableBookSAdd(p, cacheFails) ==
    LET c == frame[p].in.CollectionId IN
    /\ frame[p].pc = "fetch" /\ frame[p].gb = "sadd"
    /\ availableBooks' =
          IF cacheFails \/ Done(p) THEN availableBooks
          ELSE SAdd(availableBooks, c, {frame[p].book.Id, TTLMember})
    /\ frame' = IF Done(p)
                THEN [frame EXCEPT ![p].gb = "done",
                        ![p].bookErr = frame[p].ctx,
                        ![p].failed = @ \cup {"GetAvailableBook"}]
                ELSE [frame EXCEPT ![p].gb = "reserve"]
    /\ UNCHANGED <<stores, collectionCache>>
    /\ UNCHANGED <<gatewayVars, serviceVars, limiterVars, catalogVars>>

\* getBook, after GetAvailableBook returned a book:
\* updateCache(book, collection, "remove").
getBook(p, f) ==
    LET c == frame[p].in.CollectionId IN
    /\ frame[p].pc = "fetch" /\ frame[p].gb = "reserve"
    /\ availableBooks' =
          IF Done(p) THEN availableBooks ELSE
          updateCache(availableBooks, frame[p].book.Id, c, "remove", f)
    /\ frame' = [frame EXCEPT ![p].gb = "done"]
    /\ UNCHANGED <<stores, collectionCache>>
    /\ UNCHANGED <<gatewayVars, serviceVars, limiterVars, catalogVars>>

\* wg.Wait() returns; the Collection error is looked at first.
fetchBookAndCollection(p) ==
    /\ frame[p].pc = "fetch" /\ frame[p].gc = "done" /\ frame[p].gb = "done"
    /\ frame' = [frame EXCEPT ![p] =
          IF frame[p].collectionErr # NoErr
          THEN Return(p, frame[p].collectionErr, 0, None)
          ELSE IF frame[p].bookErr # NoErr
          THEN Return(p, frame[p].bookErr, 0, None)
          ELSE [frame[p] EXCEPT !.pc = "mark"]]
    /\ UNCHANGED <<stores, availableBooks, collectionCache>>
    /\ UNCHANGED <<gatewayVars, serviceVars, limiterVars, catalogVars>>

\* createBorrowWithCompensation, first call: markBookBorrowedStatus(true)
\* when the fetched book is not flagged as borrowed.  An error ends the
\* call; the reserved id is not put back.
MarkBorrowed(p, rpcFails) ==
    LET b == frame[p].book IN
    /\ frame[p].pc = "mark"
    /\ IF b.IsBorrowed
       THEN /\ frame' = [frame EXCEPT ![p].pc = "create"]
            /\ UNCHANGED bookStore
       ELSE IF rpcFails \/ Done(p)
       THEN /\ frame' = [frame EXCEPT ![p] =
                  [Return(p, "Internal", 0, None)
                     EXCEPT !.failed = @ \cup {"MarkBorrowed"}]]
            /\ UNCHANGED bookStore
       ELSE /\ bookStore' = UpdateBook(bookStore, b.Id, TRUE)
            /\ frame' = [frame EXCEPT ![p].pc = "create",
                           ![p].issued = @ \cup {"UpdateBook"}]
    /\ UNCHANGED <<collectionStore, borrowStore, availableBooks,
                   collectionCache>>
    /\ UNCHANGED <<gatewayVars, serviceVars, limiterVars, catalogVars>>

\* the Borrow row createBorrowWithCompensation builds
NewBorrow(id, book, collectionId) ==
    [Id |-> id, BookId |-> book.Id, UserId |-> NewUserId,
     CollectionId |-> collectionId, ReturnDate |-> NoDate]

\* createBorrowWithCompensation, second call: Service.Create(newBorrow).
CreateBorrow(p, storeFails) ==
    /\ frame[p].pc = "create"
    /\ IF storeFails \/ Done(p)
       THEN /\ frame' = [frame EXCEPT ![p].pc = "compensate",
                           ![p].failed = @ \cup {"Create"}]
            /\ UNCHANGED borrowStore
       ELSE /\ borrowStore' = Append(borrowStore,
                 NewBorrow(Len(borrowStore) + 1, frame[p].book,
                           frame[p].in.CollectionId))
            /\ frame' = [frame EXCEPT ![p].pc = "finalize",
                           ![p].newBorrow = Len(borrowStore) + 1,
                           ![p].issued = @ \cup {"Insert"}]
    /\ UNCHANGED <<bookStore, collectionStore, availableBooks,
                   collectionCache>>
    /\ UNCHANGED <<gatewayVars, serviceVars, limiterVars, catalogVars>>

\* compensation that sends the flag it is meant to undo
CompensateBookSameFlag(p, rpcFails) ==
    /\ frame[p].pc = "compensate"
    /\ IF rpcFails
       THEN /\ frame' = [frame EXCEPT ![p].pc = "release",
                           ![p].failed = @ \cup {"CompensateBook"}]
            /\ UNCHANGED bookStore
       ELSE /\ bookStore' = UpdateBook(bookStore, frame[p].book.Id, TRUE)
            /\ frame' = [frame EXCEPT ![p].pc = "release",
                           ![p].issued = @ \cup {"UpdateBook"}]
    /\ UNCHANGED <<collectionStore, borrowStore, availableBooks,
                   collectionCache>>
    /\ UNCHANGED <<gatewayVars, serviceVars, limiterVars, catalogVars>>

\* compensation after a failed insert, first call:
\* markBookBorrowedStatus(false); its error is dropped.
CompensateBook(p, rpcFails) ==
    /\ frame[p].pc = "compensate"
    /\ IF rpcFails \/ Done(p)
       THEN /\ frame' = [frame EXCEPT ![p].pc = "release",
                           ![p].failed = @ \cup {"CompensateBook"}]
            /\ UNCHANGED bookStore
       ELSE /\ bookStore' = UpdateBook(bookStore, frame[p].book.Id, FALSE)
            /\ frame' = [frame EXCEPT ![p].pc = "release",
                           ![p].issued = @ \cup {"UpdateBook"}]
    /\ UNCHANGED <<collectionStore, borrowStore, availableBooks,
                   collectionCache>>
    /\ UNCHANGED <<gatewayVars, serviceVars, limiterVars, catalogVars>>

\* compensation after a failed insert, second call:
\* updateCache(book, collection, "put"), then status Internal.
CompensateCache(p, f) ==
    LET c == frame[p].in.CollectionId IN
    /\ frame[p].pc = "release"
    /\ availableBooks' =
          IF Done(p) THEN availableBooks ELSE
          updateCache(availableBooks, frame[p].book.Id, c, "put", f)
    /\ frame' = [frame EXCEPT ![p] =
          [Return(p, "Internal", 0, None) EXCEPT
              !.failed = @ \cup (IF f.exists \/ f.op \/ Done(p)
                                 THEN {"CompensateCache"} ELSE {})]]
    /\ UNCHANGED <<stores, collectionCache>>
    /\ UNCHANGED <<gatewayVars, serviceVars, limiterVars, catalogVars>>

\* BorrowBook's last call: updateCache(book, collection, "remove"), then
\* the response with the new row's id and the book id.
FinalizeBorrow(p, f) ==
    LET c == frame[p].in.CollectionId IN
    /\ frame[p].pc = "finalize"
    /\ availableBooks' =
          IF Done(p) THEN availableBooks ELSE
          updateCache(availableBooks, frame[p].book.Id, c, "remove", f)
    /\ frame' = [frame EXCEPT ![p] =
          Return(p, "OK", frame[p].newBorrow, frame[p].book.Id)]
    /\ UNCHANGED <<stores, collectionCache>>
    /\ UNCHANGED <<gatewayVars, serviceVars, limiterVars, catalogVars>>

\* ------------------------------------------------------------ ReturnBook
\* The id of a row is known to a client only from a BorrowBook response;
\* any other id a client sends is one that no row has or will have.
Unpublished == {frame[q].newBorrow : q \in {r \in Procs :
                                              frame[r].pc # "idle"}}
Published   == DOMAIN borrowStore \ Unpublished

ReturnBook(p, borrowId) ==
    /\ frame[p].pc = "idle"
    /\ borrowId \in Published \cup {UnknownId}
    /\ frame' = [frame EXCEPT ![p] =
          [IdleFrame EXCEPT !.pc = "load",
                            !.in = [op |-> "ReturnBook",
                                    CollectionId |-> None,
                                    UserId |-> None, BorrowId |-> borrowId]]]
    /\ UNCHANGED <<stores, availableBooks, collectionCache>>
    /\ UNCHANGED <<gatewayVars, serviceVars, limiterVars, catalogVars>>

\* ReturnBook without the check of ReturnDate
LoadBorrowUnchecked(p, storeFails) ==
    LET id == frame[p].in.BorrowId IN
    /\ frame[p].pc = "load"
    /\ frame' = [frame EXCEPT ![p] =
          IF storeFails
          THEN [frame[p] EXCEPT !.pc = "unmark", !.borrowRecord = ZeroBorrow,
                                !.failed = @ \cup {"FindById"}]
          ELSE IF id \notin DOMAIN borrowStore
          THEN Return(p, "NotFound", 0, None)
          ELSE [frame[p] EXCEPT !.pc = "unmark",
                  !.borrowRecord =
                      [Id |-> id, BookId |-> borrowStore[id].BookId,
                       CollectionId |-> borrowStore[id].CollectionId,
                       ReturnDate |-> borrowStore[id].ReturnDate]]]
    /\ UNCHANGED <<stores, availableBooks, collectionCache>>
    /\ UNCHANGED <<gatewayVars, serviceVars, limiterVars, catalogVars>>

\* Service.FindById and the checks on its result.  BaseRepository.Find
\* returns a pointer to the zero value next to any error, so after an error
\* other than ErrNoDocuments the handler goes on with the zero record.
LoadBorrow(p, storeFails) ==
    LET id == frame[p].in.BorrowId IN
    /\ frame[p].pc = "load"
    /\ frame' = [frame EXCEPT ![p] =
          IF storeFails \/ Done(p)
          THEN [frame[p] EXCEPT !.pc = "unmark", !.borrowRecord = ZeroBorrow,
                                !.failed = @ \cup {"FindById"}]
          ELSE IF id \notin DOMAIN borrowStore
          THEN Return(p, "NotFound", 0, None)
          ELSE IF borrowStore[id].ReturnDate # NoDate
          THEN [Return(p, "FailedPrecondition", 0, None)
                  EXCEPT !.borrowRecord =
                             [Id |-> id, BookId |-> borrowStore[id].BookId,
                              CollectionId |-> borrowStore[id].CollectionId,
                              ReturnDate |-> borrowStore[id].ReturnDate]]
          ELSE [frame[p] EXCEPT !.pc = "unmark",
                  !.borrowRecord =
                      [Id |-> id, BookId |-> borrowStore[id].BookId,
                       CollectionId |-> borrowStore[id].CollectionId,
                       ReturnDate |-> borrowStore[id].ReturnDate]]]
    /\ UNCHANGED <<stores, availableBooks, collectionCache>>
    /\ UNCHANGED <<gatewayVars, serviceVars, limiterVars, catalogVars>>

\* a mark-returned call whose update reaches the store although the RPC
\* reports an error
MarkReturnedWritesFirst(p, rpcFails) ==
    /\ frame[p].pc = "unmark"
    /\ bookStore' =
          UpdateBook(bookStore, frame[p].borrowRecord.BookId, FALSE)
    /\ IF rpcFails
       THEN frame' = [frame EXCEPT ![p] =
                  [Return(p, "Aborted", 0, None)
                     EXCEPT !.failed = @ \cup {"MarkReturned"}]]
       ELSE frame' = [frame EXCEPT ![p].pc = "close",
                           ![p].issued = @ \cup {"UpdateBook"}]
    /\ UNCHANGED <<collectionStore, borrowStore, availableBooks,
                   collectionCache>>
    /\ UNCHANGED <<gatewayVars, serviceVars, limiterVars, catalogVars>>

\* markBookBorrowedStatus(false); an error ends the call with Aborted.
MarkReturned(p, rpcFails) ==
    /\ frame[p].pc = "unmark"
    /\ IF rpcFails \/ Done(p)
       THEN /\ frame' = [frame EXCEPT ![p] =
                  [Return(p, "Aborted", 0, None)
                     EXCEPT !.failed = @ \cup {"MarkReturned"}]]
            /\ UNCHANGED bookStore
       ELSE /\ bookStore' =
                 UpdateBook(bookStore, frame[p].borrowRecord.BookId, FALSE)
            /\ frame' = [frame EXCEPT ![p].pc = "close",
                           ![p].issued = @ \cup {"UpdateBook"}]
    /\ UNCHANGED <<collectionStore, borrowStore, availableBooks,
                   collectionCache>>
    /\ UNCHANGED <<gatewayVars, serviceVars, limiterVars, catalogVars>>

\* an update that replaces the row's dates instead of setting return_date:
\* a row that had a return date ends without one
UpdateBorrowReplacing(store, id, returnDate) ==
    [store EXCEPT ![id].ReturnDate =
                      IF @ = NoDate THEN returnDate ELSE NoDate]

\* BaseRepository.UpdateOne on the Borrow row: $set of return_date.
UpdateBorrow(store, id, returnDate) ==
    [store EXCEPT ![id].ReturnDate = returnDate]

\* Service.Update({return_date, updated_at}, in.BorrowId).  A row that does
\* not exist is ErrNoDocuments, an error like any other here.
CloseBorrow(p, storeFails) ==
    LET id == frame[p].in.BorrowId IN
    /\ frame[p].pc = "close"
    /\ IF storeFails \/ Done(p) \/ id \notin DOMAIN borrowStore
       THEN /\ frame' = [frame EXCEPT ![p].pc = "recompensate",
                           ![p].failed = @ \cup {"Update"}]
            /\ UNCHANGED borrowStore
       ELSE /\ borrowStore' = UpdateBorrow(borrowStore, id, Date)
            /\ frame' = [frame EXCEPT ![p].pc = "put",
                           ![p].issued = @ \cup {"UpdateBorrow"}]
    /\ UNCHANGED <<bookStore, collectionStore, availableBooks,
                   collectionCache>>
    /\ UNCHANGED <<gatewayVars, serviceVars, limiterVars, catalogVars>>

\* a failed Borrow update answered without the compensating call
RecompensateBookSkipped(p, rpcFails) ==
    /\ frame[p].pc = "recompensate"
    /\ frame' = [frame EXCEPT ![p] =
          [Return(p, "Internal", 0, None) EXCEPT
              !.failed = @ \cup (IF rpcFails
                                 THEN {"RecompensateBook"} ELSE {})]]
    /\ UNCHANGED <<stores, availableBooks, collectionCache>>
    /\ UNCHANGED <<gatewayVars, serviceVars, limiterVars, catalogVars>>

\* compensation after a failed Borrow update: markBookBorrowedStatus(true),
\* error dropped, then status Internal.
RecompensateBook(p, rpcFails) ==
    /\ frame[p].pc = "recompensate"
    /\ IF rpcFails \/ Done(p)
       THEN /\ frame' = [frame EXCEPT ![p] =
                  [Return(p, "Internal", 0, None)
                     EXCEPT !.failed = @ \cup {"RecompensateBook"}]]
            /\ UNCHANGED bookStore
       ELSE /\ bookStore' =
                 UpdateBook(bookStore, frame[p].borrowRecord.BookId, TRUE)
            /\ frame' = [frame EXCEPT ![p] =
                  [Return(p, "Internal", 0, None)
                     EXCEPT !.issued = @ \cup {"UpdateBook"}]]
    /\ UNCHANGED <<collectionStore, borrowStore, availableBooks,
                   collectionCache>>
    /\ UNCHANGED <<gatewayVars, serviceVars, limiterVars, catalogVars>>

\* a ReturnBook that ends like BorrowBook: the id is taken out of the set
FinalizeReturnRemoving(p, f) ==
    LET r == frame[p].borrowRecord IN
    /\ frame[p].pc = "put"
    /\ availableBooks' =
          updateCache(availableBooks, r.BookId, r.CollectionId, "remove", f)
    /\ frame' = [frame EXCEPT ![p] =
          [Return(p, "OK", r.Id, r.BookId) EXCEPT
              !.failed = @ \cup (IF f.exists \/ f.op
                                 THEN {"FinalizeReturn"} ELSE {})]]
    /\ UNCHANGED <<stores, collectionCache>>
    /\ UNCHANGED <<gatewayVars, serviceVars, limiterVars, catalogVars>>

\* ReturnBook's last call: updateCache(book, collection, "put"), then the
\* response built from the loaded record.
FinalizeReturn(p, f) ==
    LET r == frame[p].borrowRecord IN
    /\ frame[p].pc = "put"
    /\ availableBooks' =
          IF Done(p) THEN availableBooks ELSE
          updateCache(availableBooks, r.BookId, r.CollectionId, "put", f)
    /\ frame' = [frame EXCEPT ![p] =
          [Return(p, "OK", r.Id, r.BookId) EXCEPT
              !.failed = @ \cup (IF f.exists \/ f.op \/ Done(p)
                                 THEN {"FinalizeReturn"} ELSE {})]]
    /\ UNCHANGED <<stores, collectionCache>>
    /\ UNCHANGED <<gatewayVars, serviceVars, limiterVars, catalogVars>>

\* the deadline of the request's context passes, or the caller cancels,
\* while the handler runs
ctxDone(p, err) ==
    /\ frame[p].pc \notin {"idle", "returned"}
    /\ ~Done(p)
    /\ frame' = [frame EXCEPT ![p].ctx = err]
    /\ UNCHANGED <<stores, availableBooks, collectionCache>>
    /\ UNCHANGED <<gatewayVars, serviceVars, limiterVars, catalogVars>>

\* the response has been handed to the caller; the task is free again
Respond(p) ==
    /\ frame[p].pc = "returned"
    /\ frame' = [frame EXCEPT ![p] = IdleFrame]
    /\ UNCHANGED <<stores, availableBooks, collectionCache>>
    /\ UNCHANGED <<gatewayVars, serviceVars, limiterVars, catalogVars>>

\* ------------------------------------------------------- specifications
Step(p) ==
    \/ \E c \in CollIds, u \in UserIds : BorrowBook(p, c, u)
    \/ \E ok \in BOOLEAN : getCollection(p, ok)
    \/ \E ok \in BOOLEAN : getCachedAvailableBook(p, ok)
    \/ \E ok \in BOOLEAN : GetAvailableBookFind(p, ok)
    \/ \E ok \in BOOLEAN : GetAvailableBookSAdd(p, ok)
    \/ \E f \in CacheFaults : getBook(p, f)
    \/ fetchBookAndCollection(p)
    \/ \E ok \in BOOLEAN : MarkBorrowed(p, ok)
    \/ \E ok \in BOOLEAN : CreateBorrow(p, ok)
    \/ \E ok \in BOOLEAN : CompensateBook(p, ok)
    \/ \E f \in CacheFaults : CompensateCache(p, f)
    \/ \E f \in CacheFaults : FinalizeBorrow(p, f)
    \/ \E id \in BorrowIds : ReturnBook(p, id)
    \/ \E ok \in BOOLEAN : LoadBorrow(p, ok)
    \/ \E ok \in BOOLEAN : MarkReturned(p, ok)
    \/ \E ok \in BOOLEAN : CloseBorrow(p, ok)
    \/ \E ok \in BOOLEAN : RecompensateBook(p, ok)
    \/ \E f \in CacheFaults : FinalizeReturn(p, f)
    \/ Respond(p)

\* every request on its own task, tasks interleaved at every round trip
Next == \E p \in Procs : Step(p)
Spec == Init /\ [][Next]_vars

\* one request at a time: a single task serves all calls
NextSeq == Step("p1")
SpecSeq == InitSeq /\ [][NextSeq]_vars

\* one request at a time, each under a context that may be done before the
\* handler has returned
CtxErrs == {"Canceled", "DeadlineExceeded"}

NextCtx ==
    \/ Step("p1")
    \/ \E err \in CtxErrs : ctxDone("p1", err)

SpecCtx == InitSeq /\ [][NextCtx]_vars

\* =============================================================== gateway
\* The list batcher of the API gateway: GetBatch appends the request to
\* pending and arms the timer when none is armed; the timer runs flush on a
\* goroutine of its own.  Everything a function does while it holds mu is
\* one step.
MaxRequests == 3         \* GetBatch calls made in one behaviour

BatcherKinds == {"collection", "book"}

NilSort      == "nil"                     \* QueryParams.Sort == nil
DefaultLimit == 10                        \* ParseQueryParams' Limit
Filters      == {"{}", "{author}"}
Sorts        == {NilSort, "name"}

\* what ParseQueryParams can hand to GetBatch
QueryParams ==
    [Filter : Filters, Sort : Sorts, Skip : {0}, Limit : {DefaultLimit}]
\* the zero value of QueryParams
ZeroParams  == [Filter |-> "nil", Sort |-> NilSort, Skip |-> 0, Limit |-> 0]

\* the BatchRequest GetBatch builds for waiter w: the collection batcher
\* stores params, the book batcher leaves the field at its zero value
BatchRequest(kind, w, params) ==
    [w |-> w,
     params |-> IF kind = "collection" THEN params ELSE ZeroParams]

\* BuildFilterAndSort ranges over *params.Sort: a nil Sort is a nil pointer
\* dereference, which ends the process
BuildFilterAndSort(params) ==
    IF params.Sort = NilSort
    THEN [panic |-> TRUE,  Filter |-> None, Sort |-> None]
    ELSE [panic |-> FALSE, Filter |-> params.Filter, Sort |-> params.Sort]

\* the downstream request flush builds from the batch parameters
ListRequest(params) ==
    [Filter |-> BuildFilterAndSort(params).Filter,
     Sort   |-> BuildFilterAndSort(params).Sort,
     Skip   |-> params.Skip,
     Limit  |-> params.Limit]

InitGateway ==
    /\ Stocked({"b1"}, {"c1"})
    /\ ServiceIdle
    /\ Elsewhere
    /\ \E k \in BatcherKinds : batcher = IdleBatcher(k)
    /\ flushes = <<>>
    /\ waiters = <<>>
    /\ calls = <<>>

\* nothing delivered yet
NoResult == [kind |-> None, of |-> 0]

\* GetBatch up to the select: append under the lock, arm the timer if none
GetBatch(params) ==
    LET w == Len(waiters) + 1 IN
    /\ ~batcher.crashed
    /\ Len(waiters) < MaxRequests
    /\ waiters' = Append(waiters, [params |-> params, state |-> "waiting",
                                   got |-> NoResult])
    /\ batcher' = [batcher EXCEPT
          !.pending = Append(@, BatchRequest(batcher.kind, w, params)),
          !.timer   = IF @ = NoTimer THEN "armed" ELSE @]
    /\ UNCHANGED <<flushes, calls>>
    /\ UNCHANGED <<borrowVars, serviceVars, limiterVars, catalogVars>>

\* the timer fires: flush detaches pending and clears the timer under the
\* lock, and takes the first request's params as the batch parameters
flush ==
    /\ ~batcher.crashed
    /\ batcher.timer = "armed"
    /\ flushes' = Append(flushes,
          [pc      |-> "build",
           pending |-> batcher.pending,
           params  |-> IF Len(batcher.pending) > 0
                       THEN batcher.pending[1].params ELSE ZeroParams,
           result  |-> NoResult])
    /\ batcher' = [batcher EXCEPT !.pending = <<>>, !.timer = NoTimer]
    /\ UNCHANGED <<waiters, calls>>
    /\ UNCHANGED <<borrowVars, serviceVars, limiterVars, catalogVars>>

\* flush outside the lock: build the request and issue the one downstream
\* list call; a panic in BuildFilterAndSort ends the gateway process
flushCall(f) ==
    /\ ~batcher.crashed
    /\ flushes[f].pc = "build"
    /\ IF BuildFilterAndSort(flushes[f].params).panic
       THEN /\ flushes' = [flushes EXCEPT ![f].pc = "panic"]
            /\ batcher' = [batcher EXCEPT !.crashed = TRUE]
            /\ UNCHANGED calls
       ELSE /\ flushes' = [flushes EXCEPT ![f].pc = "call"]
            /\ calls' = Append(calls,
                  [flush |-> f, request |-> ListRequest(flushes[f].params)])
            /\ UNCHANGED batcher
    /\ UNCHANGED waiters
    /\ UNCHANGED <<borrowVars, serviceVars, limiterVars, catalogVars>>

\* the downstream call of flush f returns a response or an error
flushReturn(f, ok) ==
    /\ ~batcher.crashed
    /\ flushes[f].pc = "call"
    /\ flushes' = [flushes EXCEPT
          ![f].pc = "deliver",
          ![f].result = [kind |-> IF ok THEN "resp" ELSE "err", of |-> f]]
    /\ UNCHANGED <<batcher, waiters, calls>>
    /\ UNCHANGED <<borrowVars, serviceVars, limiterVars, catalogVars>>

\* the waiters flush f delivers to
Batch(f) == {flushes[f].pending[i].w : i \in DOMAIN flushes[f].pending}

\* flush's loop: the result goes into every waiter's channel, which has
\* room for it
flushDeliver(f) ==
    /\ ~batcher.crashed
    /\ flushes[f].pc = "deliver"
    /\ waiters' = [w \in DOMAIN waiters |->
          IF w \in Batch(f)
          THEN [waiters[w] EXCEPT !.got = flushes[f].result]
          ELSE waiters[w]]
    /\ flushes' = [flushes EXCEPT ![f].pc = "done"]
    /\ UNCHANGED <<batcher, calls>>
    /\ UNCHANGED <<borrowVars, serviceVars, limiterVars, catalogVars>>

\* GetBatch's select: the waiter takes what its channel holds and returns
Receive(w) ==
    /\ ~batcher.crashed
    /\ waiters[w].state = "waiting"
    /\ waiters[w].got # NoResult
    /\ waiters' = [waiters EXCEPT ![w].state = "returned"]
    /\ UNCHANGED <<batcher, flushes, calls>>
    /\ UNCHANGED <<borrowVars, serviceVars, limiterVars, catalogVars>>

NextGateway ==
    \/ \E params \in QueryParams : GetBatch(params)
    \/ flush
    \/ \E f \in DOMAIN flushes : flushCall(f)
    \/ \E f \in DOMAIN flushes, ok \in BOOLEAN : flushReturn(f, ok)
    \/ \E f \in DOMAIN flushes : flushDeliver(f)
    \/ \E w \in DOMAIN waiters : Receive(w)

SpecGateway == InitGateway /\ [][NextGateway]_vars

\* the timer fires after batchWindow, the goroutines of flush and GetBatch
\* are scheduled, and the downstream call returns
FairGateway ==
    /\ WF_vars(flush)
    /\ \A f \in 1 .. MaxRequests :
          /\ WF_vars(f \in DOMAIN flushes /\ flushCall(f))
          /\ WF_vars(/\ f \in DOMAIN flushes
                     /\ \E ok \in BOOLEAN : flushReturn(f, ok))
          /\ WF_vars(f \in DOMAIN flushes /\ flushDeliver(f))
    /\ \A w \in 1 .. MaxRequests :
          WF_vars(w \in DOMAIN waiters /\ Receive(w))

SpecGatewayFair == SpecGateway /\ FairGateway

\* ============================================================== services
\* The Book and the Collection service called directly, one call at a time;
\* a handler is one step.  Both services share the handlers' shape: lookup
\* by id through the cache key kind:id, update and delete followed by the
\* invalidation of that key.
FindFaults   == [get : BOOLEAN, find : BOOLEAN, set : BOOLEAN]
WriteFaults  == [store : BOOLEAN, del : BOOLEAN]
AvailFaults  == [smembers : BOOLEAN, find : BOOLEAN, sadd : BOOLEAN]

Failed(names, f) == {n \in names : f[n]}

\* a lookup none of whose round trips fails
NoFault == [get |-> FALSE, find |-> FALSE, set |-> FALSE]

InitService ==
    /\ Stocked(BookIds, {"c1"})
    /\ GatewayIdle
    /\ ServiceIdle
    /\ Elsewhere

\* a lookup that never fills the cache
FindByIdNoSet(kind, id, f) ==
    LET entry == Cached(bookCache, collectionCache, kind, id)
        hit   == ~f.get /\ CacheHit(kind, entry)
        call  == [NoCall EXCEPT !.op = "FindById", !.kind = kind, !.id = id,
                                !.before = entry]
    IN  /\ IF hit
           THEN svc' = [call EXCEPT !.failed = {}, !.source = "cache",
                           !.status = "OK",
                           !.entity = Unmarshal(kind, entry.json)]
           ELSE IF f.find
           THEN svc' = [call EXCEPT !.failed = Failed({"get", "find"}, f),
                           !.status = "Internal"]
           ELSE IF ~HasRow(bookStore, collectionStore, kind, id)
           THEN svc' = [call EXCEPT !.failed = Failed({"get"}, f),
                           !.status = "NotFound"]
           ELSE svc' = [call EXCEPT
                           !.failed = Failed({"get", "set"}, f),
                           !.source = "store", !.status = "OK",
                           !.entity = Entity(bookStore, collectionStore,
                                             kind, id)]
        /\ UNCHANGED <<bookCache, collectionCache>>
        /\ UNCHANGED <<stores, availableBooks, frame,
                       gatewayVars, limiterVars, catalogVars>>

\* FindBookById / FindCollectionById: the cached payload answers when GET
\* and decoding succeed; otherwise Service.Find, and a found row is
\* serialized and SET under kind:id (an error of SET is only logged).  A
\* missing row is answered with success=false and no error.
FindById(kind, id, f) ==
    LET entry == Cached(bookCache, collectionCache, kind, id)
        hit   == ~f.get /\ CacheHit(kind, entry)
        call  == [NoCall EXCEPT !.op = "FindById", !.kind = kind, !.id = id,
                                !.before = entry]
    IN  /\ IF hit
           THEN /\ svc' = [call EXCEPT !.failed = {}, !.source = "cache",
                              !.status = "OK",
                              !.entity = Unmarshal(kind, entry.json)]
                /\ UNCHANGED <<bookCache, collectionCache>>
           ELSE IF f.find
           THEN /\ svc' = [call EXCEPT
                              !.failed = Failed({"get", "find"}, f),
                              !.status = "Internal"]
                /\ UNCHANGED <<bookCache, collectionCache>>
           ELSE IF ~HasRow(bookStore, collectionStore, kind, id)
           THEN /\ svc' = [call EXCEPT !.failed = Failed({"get"}, f),
                              !.status = "NotFound"]
                /\ UNCHANGED <<bookCache, collectionCache>>
           ELSE LET e == Entity(bookStore, collectionStore, kind, id) IN
                /\ svc' = [call EXCEPT
                              !.failed = Failed({"get", "set"}, f),
                              !.source = "store", !.status = "OK",
                              !.entity = e]
                /\ bookCache' =
                      IF kind = "book" /\ ~f.set
                      THEN [bookCache EXCEPT ![id] = Entry(kind, e)]
                      ELSE bookCache
                /\ collectionCache' =
                      IF kind = "collection" /\ ~f.set
                      THEN [collectionCache EXCEPT ![id] = Entry(kind, e)]
                      ELSE collectionCache
        /\ UNCHANGED <<stores, availableBooks, frame,
                       gatewayVars, limiterVars, catalogVars>>

\* an update that rewrites the cached entry instead of deleting it
UpdateInPlace(kind, id, borrowed, f) ==
    LET entry == Cached(bookCache, collectionCache, kind, id)
        call  == [NoCall EXCEPT !.op = "Update", !.kind = kind, !.id = id,
                                !.before = entry]
    IN  /\ IF f.store
           THEN /\ svc' = [call EXCEPT !.failed = {"store"},
                              !.status = "Internal"]
                /\ UNCHANGED <<bookStore, bookCache, collectionCache>>
           ELSE IF ~HasRow(bookStore, collectionStore, kind, id)
           THEN /\ svc' = [call EXCEPT !.status = "NotFound"]
                /\ UNCHANGED <<bookStore, bookCache, collectionCache>>
           ELSE LET books == IF kind = "book"
                             THEN UpdateBook(bookStore, id, borrowed)
                             ELSE bookStore
                IN  /\ bookStore' = books
                    /\ svc' = [call EXCEPT !.failed = Failed({"del"}, f),
                                  !.source = "store", !.status = "OK",
                                  !.entity = Entity(books, collectionStore,
                                                    kind, id)]
                    /\ bookCache' =
                          IF kind = "book" /\ ~f.del
                          THEN [bookCache EXCEPT ![id] =
                                  Entry(kind, Entity(books, collectionStore,
                                                     kind, id))]
                          ELSE bookCache
                    /\ collectionCache' =
                          IF kind = "collection" /\ ~f.del
                          THEN [collectionCache EXCEPT ![id] =
                                  Entry(kind, Entity(books, collectionStore,
                                                     kind, id))]
                          ELSE collectionCache
        /\ UNCHANGED <<collectionStore, borrowStore, availableBooks, frame,
                       gatewayVars, limiterVars, catalogVars>>

\* UpdateBook / UpdateCollection with a payload that names no other row
\* (for a Book: is_borrowed): Service.Update, then invalidateCache, whose
\* error is only logged.  A missing row is answered with success=false, no
\* error and no invalidation.
Update(kind, id, borrowed, f) ==
    LET entry == Cached(bookCache, collectionCache, kind, id)
        call  == [NoCall EXCEPT !.op = "Update", !.kind = kind, !.id = id,
                                !.before = entry]
    IN  /\ IF f.store
           THEN /\ svc' = [call EXCEPT !.failed = {"store"},
                              !.status = "Internal"]
                /\ UNCHANGED <<bookStore, bookCache, collectionCache>>
           ELSE IF ~HasRow(bookStore, collectionStore, kind, id)
           THEN /\ svc' = [call EXCEPT !.status = "NotFound"]
                /\ UNCHANGED <<bookStore, bookCache, collectionCache>>
           ELSE LET books == IF kind = "book"
                             THEN UpdateBook(bookStore, id, borrowed)
                             ELSE bookStore
                IN  /\ bookStore' = books
                    /\ svc' = [call EXCEPT !.failed = Failed({"del"}, f),
                                  !.source = "store", !.status = "OK",
                                  !.entity = Entity(books, collectionStore,
                                                    kind, id)]
                    /\ bookCache' =
                          IF kind = "book" /\ ~f.del
                          THEN [bookCache EXCEPT ![id] = NoEntry]
                          ELSE bookCache
                    /\ collectionCache' =
                          IF kind = "collection" /\ ~f.del
                          THEN [collectionCache EXCEPT ![id] = NoEntry]
                          ELSE collectionCache
        /\ UNCHANGED <<collectionStore, borrowStore, availableBooks, frame,
                       gatewayVars, limiterVars, catalogVars>>

\* DeleteBook / DeleteCollection: Service.Delete, then invalidateCache.
\* The available sets are not touched.  (The stock task DeleteBook starts
\* addresses the Collection's counter, which the rows here do not carry.)
Delete(kind, id, f) ==
    LET entry == Cached(bookCache, collectionCache, kind, id)
        call  == [NoCall EXCEPT !.op = "Delete", !.kind = kind, !.id = id,
                                !.before = entry]
    IN  /\ IF f.store
           THEN /\ svc' = [call EXCEPT !.failed = {"store"},
                              !.status = "Internal"]
                /\ UNCHANGED <<bookStore, collectionStore, bookCache,
                               collectionCache>>
           ELSE IF ~HasRow(bookStore, collectionStore, kind, id)
           THEN /\ svc' = [call EXCEPT !.status = "NotFound"]
                /\ UNCHANGED <<bookStore, collectionStore, bookCache,
                               collectionCache>>
           ELSE /\ bookStore' =
                      IF kind = "book"
                      THEN [b \in DOMAIN bookStore \ {id} |-> bookStore[b]]
                      ELSE bookStore
                /\ collectionStore' =
                      IF kind = "collection"
                      THEN [c \in DOMAIN collectionStore \ {id} |->
                              collectionStore[c]]
                      ELSE collectionStore
                /\ svc' = [call EXCEPT !.failed = Failed({"del"}, f),
                              !.source = "store", !.status = "OK",
                              !.entity = Entity(bookStore, collectionStore,
                                                kind, id)]
                /\ bookCache' =
                      IF kind = "book" /\ ~f.del
                      THEN [bookCache EXCEPT ![id] = NoEntry]
                      ELSE bookCache
                /\ collectionCache' =
                      IF kind = "collection" /\ ~f.del
                      THEN [collectionCache EXCEPT ![id] = NoEntry]
                      ELSE collectionCache
        /\ UNCHANGED <<borrowStore, availableBooks, frame,
                       gatewayVars, limiterVars, catalogVars>>

\* GetAvailableBook as one call: a member of the cached set picked at
\* random answers when it is a hex object id; otherwise Service.Find and,
\* for a found row, SAdd(key, id, time.Hour) with its error only logged.
GetAvailableBook(collectionId, f) ==
    LET members == availableBooks[collectionId]
        call == [NoCall EXCEPT !.op = "GetAvailableBook", !.kind = "book",
                               !.id = collectionId]
    IN  /\ \/ /\ ~f.smembers
              /\ \E m \in members :
                    /\ IsObjectIdHex(m)
                    /\ svc' = [call EXCEPT !.source = "cache",
                                  !.status = "OK",
                                  !.entity = [Id |-> m,
                                              CollectionId |-> collectionId,
                                              IsBorrowed |-> FALSE,
                                              CreatedAt |-> ZeroTime]]
              /\ UNCHANGED availableBooks
           \/ /\ \/ f.smembers
                 \/ members = {}
                 \/ \E m \in members : ~IsObjectIdHex(m)
              /\ IF f.find
                 THEN /\ svc' = [call EXCEPT
                                   !.failed = Failed({"smembers", "find"}, f),
                                   !.status = "Internal"]
                      /\ UNCHANGED availableBooks
                 ELSE IF AvailableInStore(bookStore, collectionId) = {}
                 THEN /\ svc' = [call EXCEPT
                                   !.failed = Failed({"smembers"}, f),
                                   !.status = "NotFound"]
                      /\ UNCHANGED availableBooks
                 ELSE \E b \in AvailableInStore(bookStore, collectionId) :
                      /\ svc' = [call EXCEPT
                                   !.failed = Failed({"smembers", "sadd"}, f),
                                   !.source = "store", !.status = "OK",
                                   !.entity =
                                      Entity(bookStore, collectionStore,
                                             "book", b)]
                      /\ availableBooks' =
                            IF f.sadd THEN availableBooks
                            ELSE SAdd(availableBooks, collectionId,
                                      {b, TTLMember})
        /\ UNCHANGED <<stores, collectionCache, bookCache, frame,
                       gatewayVars, limiterVars, catalogVars>>

NextService ==
    \/ \E k \in Kinds, f \in FindFaults :
          \E id \in Ids(k) : FindById(k, id, f)
    \/ \E k \in Kinds, borrowed \in BOOLEAN, f \in WriteFaults :
          \E id \in Ids(k) : Update(k, id, borrowed, f)
    \/ \E k \in Kinds, f \in WriteFaults :
          \E id \in Ids(k) : Delete(k, id, f)
    \/ \E c \in CollIds, f \in AvailFaults : GetAvailableBook(c, f)

SpecService == InitService /\ [][NextService]_vars

\* the read paths alone: lookups by id and GetAvailableBook, no writer
NextLookup ==
    \/ \E k \in Kinds, f \in FindFaults :
          \E id \in Ids(k) : FindById(k, id, f)
    \/ \E c \in CollIds, f \in AvailFaults : GetAvailableBook(c, f)

SpecLookup == InitService /\ [][NextLookup]_vars

\* ========================================================== rate limiter
\* RateLimitingMiddleware(maxRequests, window): every request reads the
\* clock, then takes mu; what it does while it holds mu is one step.
maxRequests == 2         \* requests admitted per client and table
window      == 1         \* clock ticks a table stays in use
MaxArrivals == 4         \* requests entering the middleware in a behaviour
MaxClock    == 3         \* ticks of the clock in a behaviour

TooManyRequests == 429   \* the status of a refused request

NoArrival == [ip |-> None, now |-> 0, state |-> "arrived", status |-> 0,
              handled |-> FALSE, table |-> 0]

\* time passes
Tick ==
    /\ clock < MaxClock
    /\ clock' = clock + 1
    /\ UNCHANGED <<limiter, arrivals>>
    /\ UNCHANGED <<borrowVars, gatewayVars, serviceVars, catalogVars>>

\* a request of clientIP enters the middleware: now := time.Now()
Arrive(clientIP) ==
    /\ Len(arrivals) < MaxArrivals
    /\ arrivals' = Append(arrivals,
          [NoArrival EXCEPT !.ip = clientIP, !.now = clock])
    /\ UNCHANGED <<limiter, clock>>
    /\ UNCHANGED <<borrowVars, gatewayVars, serviceVars, catalogVars>>

\* a limiter that refuses only above maxRequests
LimitAbove(r) ==
    LET a       == arrivals[r]
        expired == a.now - limiter.lastReset > window
        counts  == IF expired THEN [ip \in ClientIPs |-> 0]
                   ELSE limiter.requestCounts
        table   == IF expired THEN limiter.resets + 1 ELSE limiter.resets
        reset   == IF expired THEN a.now ELSE limiter.lastReset
    IN  /\ a.state = "arrived"
        /\ IF counts[a.ip] > maxRequests
           THEN /\ limiter' = [requestCounts |-> counts,
                               lastReset |-> reset, resets |-> table]
                /\ arrivals' = [arrivals EXCEPT ![r] =
                      [a EXCEPT !.state = "refused",
                                !.status = TooManyRequests,
                                !.table = table]]
           ELSE /\ limiter' = [requestCounts |->
                                  [counts EXCEPT ![a.ip] = @ + 1],
                               lastReset |-> reset, resets |-> table]
                /\ arrivals' = [arrivals EXCEPT ![r] =
                      [a EXCEPT !.state = "admitted", !.handled = TRUE,
                                !.table = table]]
        /\ UNCHANGED clock
        /\ UNCHANGED <<borrowVars, gatewayVars, serviceVars, catalogVars>>

\* the handler body under mu: a table older than window is replaced by an
\* empty one and lastReset becomes the request's now; a client whose count
\* has reached maxRequests is answered 429 and the chain is aborted;
\* otherwise the count goes up by one and c.Next() runs the handler.
Limit(r) ==
    LET a       == arrivals[r]
        expired == a.now - limiter.lastReset > window
        counts  == IF expired THEN [ip \in ClientIPs |-> 0]
                   ELSE limiter.requestCounts
        table   == IF expired THEN limiter.resets + 1 ELSE limiter.resets
        reset   == IF expired THEN a.now ELSE limiter.lastReset
    IN  /\ a.state = "arrived"
        /\ IF counts[a.ip] >= maxRequests
           THEN /\ limiter' = [requestCounts |-> counts,
                               lastReset |-> reset, resets |-> table]
                /\ arrivals' = [arrivals EXCEPT ![r] =
                      [a EXCEPT !.state = "refused",
                                !.status = TooManyRequests,
                                !.table = table]]
           ELSE /\ limiter' = [requestCounts |->
                                  [counts EXCEPT ![a.ip] = @ + 1],
                               lastReset |-> reset, resets |-> table]
                /\ arrivals' = [arrivals EXCEPT ![r] =
                      [a EXCEPT !.state = "admitted", !.handled = TRUE,
                                !.table = table]]
        /\ UNCHANGED clock
        /\ UNCHANGED <<borrowVars, gatewayVars, serviceVars, catalogVars>>

InitLimiter ==
    /\ Stocked({"b1"}, {"c1"})
    /\ GatewayIdle
    /\ ServiceIdle
    /\ Elsewhere

NextLimiter ==
    \/ Tick
    \/ \E clientIP \in ClientIPs : Arrive(clientIP)
    \/ \E r \in DOMAIN arrivals : Limit(r)

SpecLimiter == InitLimiter /\ [][NextLimiter]_vars

\* ============================================================ catalogue
\* Collections and Books written through their services: AddCollection,
\* UpdateCollection, AddBook, DeleteBook and DecrementAvailableBooks, with
\* the goroutines AddCollection, AddBook and DeleteBook leave behind.  A
\* task is one call together with the goroutine it starts; every store or
\* cache round trip of a task is one step.
MaxTotal   == 3          \* largest total_books a client sets by hand
RetryLimit == 3          \* for retries < 3

Names   == {"n1", "n2"}
Authors == {"a1"}
Totals  == 0 .. 1        \* TotalBooks of an AddCollection request
Amounts == {-1, 1}       \* Amount of a DecrementAvailableBooks request

\* what is kept of a task that has ended: the call, its response, what
\* its last stock call met and what became of its goroutine
Ended(task) ==
    [task EXCEPT !.name = None, !.author = None, !.books = {},
                 !.attempts = 0, !.cached = NoEntity]

\* a goroutine that gave up after its last retry
GaveUp(task) == task.pc = "done" /\ task.retries = RetryLimit

\* the places a new task can take: those of no task and of tasks that
\* have ended (one that gave up stays on record)
Free == {t \in DOMAIN tasks : tasks[t].pc = "done" /\ ~GaveUp(tasks[t])}

CanStart == Free # {}

\* only the latest response is kept: of a task that ended earlier there
\* remains whether its goroutine gave up
Blank(task) ==
    IF task.pc # "done" THEN task
    ELSE [NoTask EXCEPT !.retries = IF GaveUp(task) THEN RetryLimit ELSE 0]

\* the tasks, with task t at its next position
Put(t, task) ==
    [u \in DOMAIN tasks |->
        IF u # t THEN Blank(tasks[u])
        ELSE IF task.pc = "done" THEN Ended(task) ELSE task]

Start(task) == Put(CHOOSE t \in Free : \A u \in Free : t <= u, task)

\* no call and no goroutine is running
AtRest == \A t \in DOMAIN tasks : tasks[t].pc = "done"

\* Service.Create / BulkInsert: the rows are added to the store
Insert(store, ids, row) ==
    [i \in DOMAIN store \cup ids |-> IF i \in ids THEN row ELSE store[i]]

\* Service.Delete: the row is taken out of the store
Remove(store, id) == [i \in DOMAIN store \ {id} |-> store[i]]

\* rows matching {name, author}
Matching(collections, name, author) ==
    {c \in DOMAIN collections : /\ collections[c].name = name
                                /\ collections[c].author = author}

\* an update of the counter that overwrites it
UpdateBookStockSet(collections, id, amount) ==
    [collections EXCEPT ![id].total_books = amount]

\* CollectionRepository.UpdateBookStock: UpdateOne(_id, $inc total_books)
UpdateBookStock(collections, id, amount) ==
    [collections EXCEPT ![id].total_books = @ + amount]

\* a cached counter written back as it was read
RestockNone(collection, amount) ==
    [collection EXCEPT !.TotalBooks = @]

\* cachedCollection.TotalBooks += int(in.Amount)
Restock(collection, amount) ==
    [collection EXCEPT !.TotalBooks = @ + amount]

\* a goroutine that does not leave its loop on a nil error
StockReturnNoBreak(task, status, err) ==
    IF task.op = "DecrementAvailableBooks"
    THEN [task EXCEPT !.pc = "done", !.status = status, !.resp = status]
    ELSE [task EXCEPT !.pc = IF task.retries + 1 < RetryLimit
                             THEN "inc" ELSE "done",
                      !.retries = @ + 1, !.status = status]

\* what the caller of DecrementAvailableBooks does when the call returns:
\* a client gets the response; the goroutine of AddBook / DeleteBook counts
\* an error and tries again while retries < 3, and stops on a nil error
StockReturn(task, status, err) ==
    IF task.op = "DecrementAvailableBooks"
    THEN [task EXCEPT !.pc = "done", !.status = status, !.resp = status]
    ELSE IF ~err
    THEN [task EXCEPT !.pc = "done", !.status = status]
    ELSE [task EXCEPT !.pc = IF task.retries + 1 < RetryLimit
                             THEN "inc" ELSE "done",
                      !.retries = @ + 1, !.status = status]

\* ---------------------------------------------------------- AddCollection
\* AddCollection is called: the id of the row is generated, and the ids of
\* the books the goroutine will insert
AddCollection(name, author, total) ==
    /\ CanStart
    /\ \E id \in CollIds \ minted, books \in SUBSET (BookIds \ minted) :
          /\ Cardinality(books) = total
          /\ tasks' = Start(
                [NoTask EXCEPT !.op = "AddCollection", !.pc = "exists",
                               !.id = id, !.name = name, !.author = author,
                               !.amount = total, !.books = books])
          /\ minted' = minted \cup {id} \cup books
    /\ UNCHANGED <<borrowVars, gatewayVars, serviceVars, limiterVars>>

\* checkIfExists(name, author): Service.Exists on the pair
checkIfExists(t, storeFails) ==
    LET task == tasks[t] IN
    /\ task.op = "AddCollection" /\ task.pc = "exists"
    /\ tasks' = Put(t,
          IF storeFails
          THEN [task EXCEPT !.pc = "done", !.resp = "Internal"]
          ELSE IF Matching(collectionStore, task.name, task.author) # {}
          THEN [task EXCEPT !.pc = "done", !.resp = "AlreadyExists"]
          ELSE [task EXCEPT !.pc = "create"])
    /\ UNCHANGED minted
    /\ UNCHANGED <<borrowVars, gatewayVars, serviceVars, limiterVars>>

\* Service.Create(collection), then the response; with TotalBooks > 0 the
\* goroutine that inserts the books is started
CreateCollection(t, storeFails) ==
    LET task == tasks[t] IN
    /\ task.op = "AddCollection" /\ task.pc = "create"
    /\ IF storeFails
       THEN /\ tasks' = Put(t,
                  [task EXCEPT !.pc = "done", !.resp = "Internal"])
            /\ UNCHANGED collectionStore
       ELSE /\ collectionStore' = Insert(collectionStore, {task.id},
                  [name |-> task.name, author |-> task.author,
                   total_books |-> task.amount])
            /\ tasks' = Put(t,
                  [task EXCEPT !.pc = IF task.amount > 0
                                      THEN "bulk" ELSE "done",
                               !.resp = "OK"])
    /\ UNCHANGED <<bookStore, borrowStore, availableBooks, collectionCache,
                   frame, minted>>
    /\ UNCHANGED <<gatewayVars, serviceVars, limiterVars>>

\* the goroutine of AddCollection: BookClient.BulkInsert(books), again
\* after an error while retries < 3
BulkInsert(t, rpcFails) ==
    LET task == tasks[t] IN
    /\ task.pc = "bulk"
    /\ IF rpcFails
       THEN /\ tasks' = Put(t,
                  [task EXCEPT !.pc = IF task.retries + 1 < RetryLimit
                                      THEN "bulk" ELSE "done",
                               !.retries = @ + 1])
            /\ UNCHANGED bookStore
       ELSE /\ bookStore' = Insert(bookStore, task.books,
                  [collection_id |-> task.id, is_borrowed |-> FALSE])
            /\ tasks' = Put(t, [task EXCEPT !.pc = "done"])
    /\ UNCHANGED <<collectionStore, borrowStore, availableBooks,
                   collectionCache, frame, minted>>
    /\ UNCHANGED <<gatewayVars, serviceVars, limiterVars>>

\* ------------------------------------------------------- UpdateCollection
\* UpdateCollection(id, {name, author}) is called
UpdateCollection(id, name, author) ==
    /\ CanStart
    /\ tasks' = Start(
          [NoTask EXCEPT !.op = "UpdateCollection", !.pc = "find",
                         !.id = id, !.name = name, !.author = author])
    /\ UNCHANGED minted
    /\ UNCHANGED <<borrowVars, gatewayVars, serviceVars, limiterVars>>

\* Service.Find({name, author}): one matching row, if any; a row with
\* another id ends the call with AlreadyExists
FindConflict(t, storeFails) ==
    LET task  == tasks[t]
        found == Matching(collectionStore, task.name, task.author)
    IN  /\ task.op = "UpdateCollection" /\ task.pc = "find"
        /\ IF storeFails
           THEN tasks' = Put(t,
                   [task EXCEPT !.pc = "done", !.resp = "Internal"])
           ELSE IF found = {}
           THEN tasks' = Put(t, [task EXCEPT !.pc = "update"])
           ELSE \E c \in found :
                   tasks' = Put(t,
                      IF c # task.id
                      THEN [task EXCEPT !.pc = "done",
                                        !.resp = "AlreadyExists"]
                      ELSE [task EXCEPT !.pc = "update"])
        /\ UNCHANGED minted
        /\ UNCHANGED <<borrowVars, gatewayVars, serviceVars, limiterVars>>

\* Service.Update(update, id), then invalidateCache; a missing row is
\* answered with success=false
UpdateCollectionRow(t, f) ==
    LET task == tasks[t] IN
    /\ task.op = "UpdateCollection" /\ task.pc = "update"
    /\ IF f.store
       THEN /\ tasks' = Put(t,
                  [task EXCEPT !.pc = "done", !.resp = "Internal"])
            /\ UNCHANGED <<collectionStore, collectionCache>>
       ELSE IF task.id \notin DOMAIN collectionStore
       THEN /\ tasks' = Put(t,
                  [task EXCEPT !.pc = "done", !.resp = "NotFound"])
            /\ UNCHANGED <<collectionStore, collectionCache>>
       ELSE /\ collectionStore' = [collectionStore EXCEPT
                  ![task.id].name = task.name,
                  ![task.id].author = task.author]
            /\ collectionCache' =
                  IF f.del THEN collectionCache
                  ELSE [collectionCache EXCEPT ![task.id] = NoEntry]
            /\ tasks' = Put(t,
                  [task EXCEPT !.pc = "done", !.resp = "OK"])
    /\ UNCHANGED <<bookStore, borrowStore, availableBooks, frame, minted>>
    /\ UNCHANGED <<gatewayVars, serviceVars, limiterVars>>

\* ------------------------------------------------------ AddBook, DeleteBook
\* AddBook: Service.Create(book), the goroutine for the stock (+1) is
\* started, the response is success.  Ids are generated ObjectIDs: the
\* client names a collection that has been created, or an id that no
\* AddCollection will generate.
AddBook(collectionId, storeFails) ==
    /\ CanStart
    /\ collectionId \in DOMAIN collectionStore \/ collectionId \notin minted
    /\ \E id \in BookIds \ minted :
          IF storeFails
          THEN /\ tasks' = Start(
                     [NoTask EXCEPT !.op = "AddBook", !.resp = "Internal"])
               /\ UNCHANGED <<bookStore, minted>>
          ELSE /\ bookStore' = Insert(bookStore, {id},
                     [collection_id |-> collectionId,
                      is_borrowed |-> FALSE])
               /\ minted' = minted \cup {id, collectionId}
               /\ tasks' = Start(
                     [NoTask EXCEPT !.op = "AddBook", !.pc = "inc",
                                    !.id = collectionId, !.amount = 1,
                                    !.books = {id}, !.resp = "OK"])
    /\ UNCHANGED <<collectionStore, borrowStore, availableBooks,
                   collectionCache, frame>>
    /\ UNCHANGED <<gatewayVars, serviceVars, limiterVars>>

\* DeleteBook: Service.Delete(id), invalidateCache, the goroutine for the
\* stock (-1) of the deleted row's collection is started
DeleteBook(bookId, f) ==
    /\ CanStart
    /\ IF f.store
       THEN /\ tasks' = Start(
                  [NoTask EXCEPT !.op = "DeleteBook", !.resp = "Internal"])
            /\ UNCHANGED <<bookStore, bookCache>>
       ELSE IF bookId \notin DOMAIN bookStore
       THEN /\ tasks' = Start(
                  [NoTask EXCEPT !.op = "DeleteBook", !.resp = "NotFound"])
            /\ UNCHANGED <<bookStore, bookCache>>
       ELSE /\ bookStore' = Remove(bookStore, bookId)
            /\ bookCache' = IF f.del THEN bookCache
                            ELSE [bookCache EXCEPT ![bookId] = NoEntry]
            /\ tasks' = Start(
                  [NoTask EXCEPT !.op = "DeleteBook", !.pc = "inc",
                                 !.id = bookStore[bookId].collection_id,
                                 !.amount = -1, !.books = {bookId},
                                 !.resp = "OK"])
    /\ UNCHANGED <<collectionStore, borrowStore, availableBooks,
                   collectionCache, frame, svc, minted>>
    /\ UNCHANGED <<gatewayVars, limiterVars>>

\* ------------------------------------------------ DecrementAvailableBooks
\* a client calls DecrementAvailableBooks(id, amount)
DecrementAvailableBooks(id, amount) ==
    /\ CanStart
    /\ id \in DOMAIN collectionStore =>
          collectionStore[id].total_books + amount \in 0 .. MaxTotal
    /\ CacheHit("collection", collectionCache[id]) =>
          Unmarshal("collection", collectionCache[id].json).TotalBooks
              + amount \in 0 .. MaxTotal
    /\ tasks' = Start(
          [NoTask EXCEPT !.op = "DecrementAvailableBooks", !.pc = "inc",
                         !.id = id, !.amount = amount])
    /\ UNCHANGED minted
    /\ UNCHANGED <<borrowVars, gatewayVars, serviceVars, limiterVars>>

\* first round trip: Repository.UpdateBookStock.  An error is returned; a
\* ModifiedCount of 0 (no row with the id, or an amount of 0) is answered
\* with success=false, "No book updated" and a nil error.
StockUpdate(t, storeFails) ==
    LET task == [tasks[t] EXCEPT !.attempts = @ + 1,
                                 !.before = collectionCache[tasks[t].id],
                                 !.cached = NoEntity, !.failed = {}]
    IN  /\ tasks[t].pc = "inc"
        /\ IF storeFails
           THEN /\ tasks' = Put(t,
                      StockReturn([task EXCEPT !.failed = {"store"}],
                                  "Unknown", TRUE))
                /\ UNCHANGED collectionStore
           ELSE IF task.id \notin DOMAIN collectionStore \/ task.amount = 0
           THEN /\ tasks' = Put(t,
                      StockReturn(task, "NoBookUpdated", FALSE))
                /\ UNCHANGED collectionStore
           ELSE /\ collectionStore' =
                      UpdateBookStock(collectionStore, task.id, task.amount)
                /\ tasks' = Put(t, [task EXCEPT !.pc = "get"])
        /\ UNCHANGED <<bookStore, borrowStore, availableBooks,
                       collectionCache, frame, minted>>
        /\ UNCHANGED <<gatewayVars, serviceVars, limiterVars>>

\* second round trip: getCachedCollection.  Without a payload that
\* decodes the call is over ("Error getting cache") and answers success.
StockCacheGet(t, cacheFails) ==
    LET task  == tasks[t]
        entry == collectionCache[task.id]
    IN  /\ task.pc = "get"
        /\ tasks' = Put(t,
              IF cacheFails
              THEN StockReturn([task EXCEPT !.failed = @ \cup {"get"}],
                               "OK", FALSE)
              ELSE IF ~CacheHit("collection", entry)
              THEN StockReturn(task, "OK", FALSE)
              ELSE [task EXCEPT !.pc = "set",
                      !.cached = Unmarshal("collection", entry.json)])
        /\ UNCHANGED minted
        /\ UNCHANGED <<borrowVars, gatewayVars, serviceVars, limiterVars>>

\* third round trip: the cached collection with its counter moved by the
\* amount is SET under the key; after an error of SET the key is deleted
StockCacheSet(t, cacheFails) ==
    LET task == tasks[t] IN
    /\ task.pc = "set"
    /\ collectionCache' = [collectionCache EXCEPT ![task.id] =
          IF cacheFails THEN NoEntry
          ELSE Entry("collection", Restock(task.cached, task.amount))]
    /\ tasks' = Put(t,
          StockReturn([task EXCEPT !.failed =
                          @ \cup (IF cacheFails THEN {"set"} ELSE {})],
                      "OK", FALSE))
    /\ UNCHANGED <<stores, availableBooks, frame, minted>>
    /\ UNCHANGED <<gatewayVars, serviceVars, limiterVars>>

\* a key that holds a payload json.Unmarshal rejects
Garbled == [set |-> TRUE, json |-> Undecodable]

\* such a payload is SET under the key, as after an error of json.Marshal,
\* when Cache.Set is called with the bytes that were not produced
Garble(id) ==
    /\ collectionCache[id] # Garbled
    /\ collectionCache' = [collectionCache EXCEPT ![id] = Garbled]
    /\ UNCHANGED <<stores, availableBooks, frame>>
    /\ UNCHANGED <<gatewayVars, serviceVars, limiterVars, catalogVars>>

\* ---------------------------------------------------------- specifications
\* an empty catalogue, calls and goroutines interleaved at every round trip
InitCatalog ==
    /\ Stocked({}, {})
    /\ GatewayIdle
    /\ ServiceIdle
    /\ Elsewhere

NextCatalog ==
    \/ \E n \in Names, a \in Authors, total \in Totals :
          AddCollection(n, a, total)
    \/ \E t \in DOMAIN tasks, fails \in BOOLEAN : checkIfExists(t, fails)
    \/ \E t \in DOMAIN tasks, fails \in BOOLEAN : CreateCollection(t, fails)
    \/ \E t \in DOMAIN tasks, fails \in BOOLEAN : BulkInsert(t, fails)
    \/ \E id \in CollIds, n \in Names, a \in Authors :
          UpdateCollection(id, n, a)
    \/ \E t \in DOMAIN tasks, fails \in BOOLEAN : FindConflict(t, fails)
    \/ \E t \in DOMAIN tasks, f \in WriteFaults : UpdateCollectionRow(t, f)

SpecCatalog == InitCatalog /\ [][NextCatalog]_vars

\* books added to and deleted from the collections, with the goroutines
\* that move the stock counter.  No collection is looked up, so that the
\* cache holds no collection and getCachedCollection ends every stock call.
NextBooks ==
    \/ \E n \in Names, a \in Authors, total \in Totals :
          AddCollection(n, a, total)
    \/ \E t \in DOMAIN tasks, fails \in BOOLEAN : checkIfExists(t, fails)
    \/ \E t \in DOMAIN tasks, fails \in BOOLEAN : CreateCollection(t, fails)
    \/ \E t \in DOMAIN tasks, fails \in BOOLEAN : BulkInsert(t, fails)
    \/ \E c \in CollIds, fails \in BOOLEAN : AddBook(c, fails)
    \/ \E b \in BookIds, f \in WriteFaults : DeleteBook(b, f)
    \/ \E t \in DOMAIN tasks, fails \in BOOLEAN : StockUpdate(t, fails)
    \/ \E t \in DOMAIN tasks, fails \in BOOLEAN : StockCacheGet(t, fails)

SpecBooks == InitCatalog /\ [][NextBooks]_vars

\* the goroutines are scheduled, and every call they make returns within
\* the 5 seconds of backgroundCtx
FairBooks ==
    \A t \in Workers :
        /\ WF_vars(\E fails \in BOOLEAN : StockUpdate(t, fails))
        /\ WF_vars(\E fails \in BOOLEAN : StockCacheGet(t, fails))

SpecBooksFair == SpecBooks /\ FairBooks

\* the stock counter called by a client, one call at a time, next to
\* lookups of the collection; the cache may hold payloads that do not
\* decode
NextStock ==
    \/ AtRest /\ \E id \in CollIds, amount \in Amounts :
                    DecrementAvailableBooks(id, amount)
    \/ \E t \in DOMAIN tasks, fails \in BOOLEAN : StockUpdate(t, fails)
    \/ \E t \in DOMAIN tasks, fails \in BOOLEAN : StockCacheGet(t, fails)
    \/ \E t \in DOMAIN tasks, fails \in BOOLEAN : StockCacheSet(t, fails)
    \/ AtRest /\ \E id \in CollIds : FindById("collection", id, NoFault)
    \/ AtRest /\ \E id \in CollIds : Garble(id)

SpecStock == InitService /\ [][NextStock]_vars

\* books deleted between BorrowBook and ReturnBook calls, one call at a
\* time; the goroutine of DeleteBook moves the stock counter before the
\* next call is made
NextShelf ==
    \/ AtRest /\ Step("p1")
    \/ /\ AtRest /\ frame["p1"].pc = "idle"
       /\ \E b \in BookIds, f \in WriteFaults : DeleteBook(b, f)
    \/ \E t \in DOMAIN tasks, fails \in BOOLEAN : StockUpdate(t, fails)
    \/ \E t \in DOMAIN tasks, fails \in BOOLEAN : StockCacheGet(t, fails)
    \/ \E t \in DOMAIN tasks, fails \in BOOLEAN : StockCacheSet(t, fails)

SpecShelf == Init /\ [][NextShelf]_vars

\* the stock counter called by two clients at once, no round trip failing,
\* next to lookups of the collection made while no call is in progress
NextRace ==
    \/ \E id \in CollIds, amount \in Amounts :
          DecrementAvailableBooks(id, amount)
    \/ \E t \in DOMAIN tasks : StockUpdate(t, FALSE)
    \/ \E t \in DOMAIN tasks : StockCacheGet(t, FALSE)
    \/ \E t \in DOMAIN tasks : StockCacheSet(t, FALSE)
    \/ AtRest /\ \E id \in CollIds : FindById("collection", id, NoFault)

SpecRace == InitService /\ [][NextRace]_vars

\* --------------------------------------------------- FindBookById, in steps
\* FindBookById called next to other calls of the Book service, one step
\* for each of its round trips.  First getCachedBook: a payload that is
\* read and decodes answers the call.
getCachedBook(id, getFails) ==
    LET entry == bookCache[id]
        call  == [NoTask EXCEPT !.op = "FindBookById", !.id = id,
                                !.failed = IF getFails THEN {"get"} ELSE {}]
    IN  /\ CanStart
        /\ tasks' = Start(
              IF ~getFails /\ CacheHit("book", entry)
              THEN [call EXCEPT !.status = "OK", !.resp = "OK"]
              ELSE [call EXCEPT !.pc = "find"])
        /\ UNCHANGED minted
        /\ UNCHANGED <<borrowVars, gatewayVars, serviceVars, limiterVars>>

\* second round trip: Service.Find reads the row the store holds now
FindBookByIdFind(t, findFails) ==
    LET task == tasks[t] IN
    /\ task.op = "FindBookById"
    /\ task.pc = "find"
    /\ tasks' = Put(t,
          IF findFails
          THEN [task EXCEPT !.pc = "done", !.status = "Internal",
                            !.resp = "Internal",
                            !.failed = @ \cup {"find"}]
          ELSE IF task.id \notin DOMAIN bookStore
          THEN [task EXCEPT !.pc = "done", !.status = "NotFound",
                            !.resp = "NotFound"]
          ELSE [task EXCEPT !.pc = "set",
                  !.cached = Entity(bookStore, collectionStore, "book",
                                    task.id)])
    /\ UNCHANGED minted
    /\ UNCHANGED <<borrowVars, gatewayVars, serviceVars, limiterVars>>

\* third round trip: the row that was read is serialized and SET under
\* book:id; an error of SET is only logged
FindBookByIdSet(t, setFails) ==
    LET task == tasks[t] IN
    /\ task.op = "FindBookById"
    /\ task.pc = "set"
    /\ bookCache' = IF setFails THEN bookCache
                    ELSE [bookCache EXCEPT ![task.id] =
                             Entry("book", task.cached)]
    /\ tasks' = Put(t,
          [task EXCEPT !.pc = "done", !.status = "OK", !.resp = "OK",
                       !.failed = @ \cup (IF setFails THEN {"set"} ELSE {})])
    /\ UNCHANGED <<svc, minted>>
    /\ UNCHANGED <<borrowVars, gatewayVars, limiterVars>>

\* lookups of a Book in progress while the Book is updated and looked up
\* by other calls
NextReaders ==
    \/ \E id \in BookIds, fails \in BOOLEAN : getCachedBook(id, fails)
    \/ \E t \in DOMAIN tasks, fails \in BOOLEAN : FindBookByIdFind(t, fails)
    \/ \E t \in DOMAIN tasks, fails \in BOOLEAN : FindBookByIdSet(t, fails)
    \/ \E id \in BookIds, borrowed \in BOOLEAN, f \in WriteFaults :
          Update("book", id, borrowed, f)
    \/ \E id \in BookIds : FindById("book", id, NoFault)

SpecReaders == InitService /\ [][NextReaders]_vars

\* ================================================================ claims
Quiescent == \A p \in Procs : frame[p].pc \in {"idle", "returned"}

\* a finished call of the given operation, its response not yet collected
Finished(p, op) == frame[p].pc = "returned" /\ frame[p].in.op = op

\* C1: in every quiescent state, a Book whose is_borrowed is false has no
\* open Borrow row (no row without return date) referencing it.
C1_FreeBookHasNoOpenBorrow ==
    Quiescent =>
        \A b \in DOMAIN bookStore :
            ~bookStore[b].is_borrowed => OpenBorrows(borrowStore, b) = {}

\* C2: in the stores, a Book is flagged borrowed if and only if exactly one
\* Borrow row with its id has no return date (stated for quiescent states,
\* where no call is between its two writes).
C2_BorrowedIffOneOpenBorrow ==
    Quiescent =>
        \A b \in DOMAIN bookStore :
            bookStore[b].is_borrowed
                <=> Cardinality(OpenBorrows(borrowStore, b)) = 1

\* a BorrowBook that got its book from the cached set and has neither
\* finished nor handed the id back
HoldsCached(p) ==
    /\ frame[p].in.op = "BorrowBook"
    /\ frame[p].source = "cache"
    /\ frame[p].pc \in {"fetch", "mark", "create", "compensate", "finalize"}

\* C3: of two BorrowBook calls running at the same time, at most one holds
\* a given book id obtained through the cached path.
C3_CachedReserveIsExclusive ==
    \A p, q \in Procs :
        (p # q /\ HoldsCached(p) /\ HoldsCached(q))
            => frame[p].book.Id # frame[q].book.Id

\* ------------------------------------------- one call, seen at its return
\* the Borrow row a response names
Row(id) == borrowStore[id]

C6_MarkFailureReleasesBook ==
    \A p \in Procs :
        (Finished(p, "BorrowBook") /\ frame[p].failed = {"MarkBorrowed"}) =>
            /\ frame[p].resp.status # "OK"
            /\ Len(borrowStore) = frame[p].pre.rows
            /\ frame[p].book.Id \in availableBooks[frame[p].in.CollectionId]

\* C7: when the Collection lookup of BorrowBook fails and the book
\* reservation succeeds, the call returns the Collection error, issues no
\* Book update and no Borrow insert, and a reserved id that was a member of
\* the cached available set before the call is a member when it returns.
C7_CollectionFailureReleasesBook ==
    \A p \in Procs :
        (/\ Finished(p, "BorrowBook")
         /\ frame[p].failed = {"getCollection"}
         /\ frame[p].book # NoBook) =>
            /\ frame[p].resp.status = frame[p].collectionErr
            /\ frame[p].issued = {}
            /\ Len(borrowStore) = frame[p].pre.rows
            /\ (frame[p].book.Id \in frame[p].pre.avail
                   => frame[p].book.Id
                          \in availableBooks[frame[p].in.CollectionId])

\* C8: when BorrowBook is called for a collection whose cached available
\* set is empty or missing while the Book store holds no book of it that is
\* not borrowed, and no downstream call of the request fails, the call
\* returns NotFound, updates no Book and adds no Borrow row.
C8_NoAvailableBook ==
    \A p \in Procs :
        (/\ Finished(p, "BorrowBook")
         /\ frame[p].in.CollectionId \in DOMAIN collectionStore
         /\ frame[p].pre.avail = {}
         /\ frame[p].pre.free = {}
         /\ frame[p].failed = {}) =>
            /\ frame[p].resp.status = "NotFound"
            /\ frame[p].issued = {}
            /\ Len(borrowStore) = frame[p].pre.rows
            /\ AvailableInStore(bookStore, frame[p].in.CollectionId) = {}

\* C8 witness: such a call has returned for c1 after every copy was lent.
C8_Witness ==
    /\ Finished("p1", "BorrowBook")
    /\ frame["p1"].in.CollectionId = "c1"
    /\ frame["p1"].pre.avail = {}
    /\ frame["p1"].pre.free = {}
    /\ frame["p1"].failed = {}
    /\ \A b \in BookIds : bookStore[b].is_borrowed

C10_ClosedStaysClosed ==
    [][\A i \in DOMAIN borrowStore :
          borrowStore[i].ReturnDate # NoDate =>
              /\ i \in DOMAIN borrowStore'
              /\ borrowStore'[i].ReturnDate # NoDate]_vars

\* C10 witness: a ReturnBook that loaded the row while it was open is about
\* to write the Borrow row after another call has closed it.
C10_Witness ==
    \E p \in Procs :
        /\ frame[p].pc \in {"close", "recompensate"}
        /\ frame[p].in.BorrowId \in DOMAIN borrowStore
        /\ Row(frame[p].in.BorrowId).ReturnDate # NoDate

\* C11: the return date of a Borrow row is written exactly once: no
\* ReturnBook, in any interleaving of calls on the same id, writes the
\* return date of a row that already has one.
C11_ReturnDateWrittenOnce ==
    [][\A p \in Procs :
          (/\ frame[p].pc = "close"
           /\ "UpdateBorrow" \in frame'[p].issued) =>
              Row(frame[p].in.BorrowId).ReturnDate = NoDate]_vars

C13_MarkReturnedFailureWritesNothing ==
    [][\A p \in Procs :
          (/\ frame[p].pc = "unmark"
           /\ frame[p].failed = {}
           /\ frame'[p].failed = {"MarkReturned"}) =>
              /\ frame'[p].pc = "returned"
              /\ frame'[p].resp.status = "Aborted"
              /\ frame'[p].issued = {}
              /\ Row(frame[p].in.BorrowId).ReturnDate = NoDate
              /\ UNCHANGED <<stores, availableBooks>>]_vars

\* C13 witness: a ReturnBook of a borrowed book has returned Aborted after
\* its mark-returned update failed.
C13_Witness ==
    /\ Finished("p1", "ReturnBook")
    /\ frame["p1"].failed = {"MarkReturned"}
    /\ frame["p1"].resp.status = "Aborted"
    /\ bookStore[frame["p1"].borrowRecord.BookId].is_borrowed

\* C14: when in ReturnBook the Book update succeeded and the Borrow update
\* then fails, no other downstream call failing, the failing update leaves
\* the row and the available sets as they were, and the next step issues a
\* Book update that flags the book as borrowed, returns Internal, leaves the
\* Borrow row open and adds nothing to the available sets.
C14_BorrowUpdateFailureCompensates ==
    [][\A p \in Procs :
          /\ (/\ frame[p].pc = "close"
               /\ frame'[p].failed = {"Update"}) =>
                  /\ frame'[p].pc = "recompensate"
                  /\ UNCHANGED <<borrowStore, availableBooks>>
          /\ (/\ frame[p].pc = "recompensate"
               /\ frame[p].failed = {"Update"}
               /\ frame'[p].pc = "returned"
               /\ frame'[p].failed = {"Update"}) =>
                  /\ frame'[p].resp.status = "Internal"
                  /\ frame'[p].issued = {"UpdateBook"}
                  /\ bookStore'[frame[p].borrowRecord.BookId].is_borrowed
                  /\ Row(frame[p].in.BorrowId).ReturnDate = NoDate
                  /\ UNCHANGED <<borrowStore, availableBooks>>]_vars

\* C14 witness: a ReturnBook whose Borrow update was its only failure has
\* returned, its book flagged as borrowed again.
C14_Witness ==
    /\ Finished("p1", "ReturnBook")
    /\ frame["p1"].failed = {"Update"}
    /\ frame["p1"].resp.status = "Internal"
    /\ bookStore[frame["p1"].borrowRecord.BookId].is_borrowed

\* ------------------------------------------------------------- batcher
\* the downstream calls issued on behalf of flush f
CallsOf(f) == {i \in DOMAIN calls : calls[i].flush = f}

\* the places a waiter's request is held in: pending, or a flush's batch
HeldIn(w) ==
    {<<"pending", i>> : i \in {j \in DOMAIN batcher.pending :
                                  batcher.pending[j].w = w}}
    \cup {<<"flush", f>> : f \in {g \in DOMAIN flushes : w \in Batch(g)}}

\* C16: the requests appended between the arming of the timer and its
\* firing form one batch: every request is held in exactly one place, and a
\* flush that has ended has issued exactly one downstream list call and has
\* handed its result, the same response or the same error, to every waiter
\* of its batch.
C16_OneCallPerBatch ==
    /\ \A w \in DOMAIN waiters : Cardinality(HeldIn(w)) = 1
    /\ \A f \in DOMAIN flushes :
          /\ Cardinality(CallsOf(f)) <= 1
          /\ flushes[f].pc \in {"done", "panic"} =>
                /\ Cardinality(CallsOf(f)) = 1
                /\ flushes[f].result # NoResult
                /\ \A w \in Batch(f) : waiters[w].got = flushes[f].result

\* C17: a batcher has at most one downstream call in flight at any time.
C17_OneDownstreamCallInFlight ==
    Cardinality({f \in DOMAIN flushes : flushes[f].pc = "call"}) <= 1

\* C18: for the collection and the book batcher alike, the parameters a
\* flush takes for its batch, and the request of the downstream call it
\* issues, are those the first request appended to the batch was called
\* with.
C18_BatchUsesFirstRequestParams ==
    /\ \A f \in DOMAIN flushes :
          Len(flushes[f].pending) > 0 =>
              flushes[f].params = waiters[flushes[f].pending[1].w].params
    /\ \A i \in DOMAIN calls :
          LET first == waiters[flushes[calls[i].flush].pending[1].w]
          IN  /\ calls[i].request.Filter = first.params.Filter
              /\ calls[i].request.Sort = first.params.Sort
              /\ calls[i].request.Skip = first.params.Skip
              /\ calls[i].request.Limit = first.params.Limit

\* ------------------------------------------------------------ services
\* C15: with no operation in flight, every book id in the cached available
\* set of a collection C is the id of a Book row with collection C that is
\* not flagged borrowed, after any sequence of GetAvailableBook, UpdateBook
\* and DeleteBook calls.
C15_AvailableSetWithinFreeBooks ==
    \A c \in CollIds :
        \A m \in availableBooks[c] :
            IsObjectIdHex(m) =>
                /\ m \in DOMAIN bookStore
                /\ bookStore[m].collection_id = c
                /\ ~bookStore[m].is_borrowed

\* C19: a lookup by id that finds no cache entry and a row in the store,
\* none of its round trips failing, returns that row and leaves its
\* serialized form under the cache key kind:id; a lookup of the same id
\* that directly follows such a lookup is answered from the cache with the
\* same entity.
C19_LookupFillsCache ==
    [][/\ (/\ svc'.op = "FindById"
            /\ svc'.failed = {}
            /\ ~svc'.before.set
            /\ HasRow(bookStore, collectionStore, svc'.kind, svc'.id)) =>
               /\ svc'.status = "OK"
               /\ svc'.entity = Entity(bookStore, collectionStore,
                                       svc'.kind, svc'.id)
               /\ Cached(bookCache', collectionCache', svc'.kind, svc'.id)
                      = [set |-> TRUE,
                         json |-> Marshal(svc'.kind,
                                     Entity(bookStore, collectionStore,
                                            svc'.kind, svc'.id))]
               /\ UNCHANGED stores
       /\ (/\ svc.op = "FindById" /\ svc.status = "OK" /\ svc.failed = {}
            /\ svc'.op = "FindById" /\ svc'.failed = {}
            /\ svc'.kind = svc.kind /\ svc'.id = svc.id) =>
               /\ svc'.status = "OK"
               /\ svc'.source = "cache"
               /\ svc'.entity = svc.entity]_vars

\* C19 witness: a lookup of a Book has been answered from the cache, with
\* the entry an earlier lookup left there.
C19_Witness ==
    /\ svc.op = "FindById" /\ svc.kind = "book"
    /\ svc.source = "cache" /\ svc.status = "OK"
    /\ svc.entity = Entity(bookStore, collectionStore, "book", svc.id)

\* C20: after an update or delete of a Book or Collection that succeeded,
\* its invalidation not failing, the cache key kind:id is absent; the call
\* succeeds whether or not the invalidation does; and when the key was
\* absent before the call, the call changes no cache entry.
C20_WriteInvalidates ==
    [][(/\ svc'.op \in {"Update", "Delete"}
        /\ svc'.status = "OK") =>
           /\ svc'.failed \subseteq {"del"}
           /\ svc'.failed = {} =>
                 ~Cached(bookCache', collectionCache', svc'.kind,
                         svc'.id).set
           /\ ~svc'.before.set =>
                 UNCHANGED <<bookCache, collectionCache>>]_vars

\* C20 witness: an update of a Book whose cache entry was present has
\* succeeded.
C20_Witness ==
    /\ svc.op = "Update" /\ svc.kind = "book"
    /\ svc.status = "OK" /\ svc.failed = {}
    /\ svc.before.set

\* C21: the cache never changes the outcome of a read: a lookup by id and
\* a GetAvailableBook whose store read does not fail answer what the store
\* alone answers -- the row as stored, or NotFound -- whatever the cache
\* holds, and leave the stores as they were.
C21_CacheNeverChangesOutcome ==
    [][/\ (svc'.op = "FindById" /\ "find" \notin svc'.failed) =>
             IF HasRow(bookStore, collectionStore, svc'.kind, svc'.id)
             THEN /\ svc'.status = "OK"
                  /\ svc'.entity = Entity(bookStore, collectionStore,
                                          svc'.kind, svc'.id)
             ELSE svc'.status = "NotFound"
       /\ (svc'.op = "GetAvailableBook" /\ "find" \notin svc'.failed) =>
             IF AvailableInStore(bookStore, svc'.id) = {}
             THEN svc'.status = "NotFound"
             ELSE /\ svc'.status = "OK"
                  /\ \E b \in AvailableInStore(bookStore, svc'.id) :
                        svc'.entity = Entity(bookStore, collectionStore,
                                             "book", b)
       /\ UNCHANGED stores]_vars

\* ----------------------------------------------- BorrowBook, the new row
\* C27: the Borrow row inserted by BorrowBook(collectionId, userId) carries
\* the userId and the collectionId of the request and the id of the
\* reserved book.
C27_InsertedRowCarriesRequest ==
    \A p \in Procs :
        (frame[p].in.op = "BorrowBook" /\ frame[p].newBorrow # 0) =>
            /\ Row(frame[p].newBorrow).UserId = frame[p].in.UserId
            /\ Row(frame[p].newBorrow).CollectionId = frame[p].in.CollectionId
            /\ Row(frame[p].newBorrow).BookId = frame[p].book.Id

\* C29: when BorrowBook finds the cached available set of C empty and gets
\* book B from the store query, no downstream call failing, it returns
\* success with B flagged borrowed and one new open Borrow row for B, and
\* the key available_books:C holds no member when the call returns.
C29_StorePathLeavesSetEmpty ==
    \A p \in Procs :
        (/\ Finished(p, "BorrowBook")
         /\ frame[p].pre.avail = {}
         /\ frame[p].source = "store"
         /\ frame[p].failed = {}) =>
            LET B == frame[p].book.Id
                C == frame[p].in.CollectionId
            IN  /\ frame[p].resp.status = "OK"
                /\ bookStore[B].is_borrowed
                /\ Len(borrowStore) = frame[p].pre.rows + 1
                /\ Row(frame[p].resp.Id).BookId = B
                /\ Row(frame[p].resp.Id).ReturnDate = NoDate
                /\ availableBooks[C] = {}

\* C30: a BorrowBook for a collection id that has no Collection row, the
\* lookup itself not failing, returns NotFound and adds no Borrow row.
C30_MissingCollectionIsNotFound ==
    \A p \in Procs :
        (/\ Finished(p, "BorrowBook")
         /\ frame[p].in.CollectionId \notin DOMAIN collectionStore
         /\ "getCollection" \notin frame[p].failed) =>
            /\ frame[p].resp.status = "NotFound"
            /\ frame[p].newBorrow = 0
            /\ Len(borrowStore) = frame[p].pre.rows

\* ----------------------------------------------------------- rate limiter
\* the requests of a client admitted while table t was in use
AdmittedIn(ip, t) ==
    {r \in DOMAIN arrivals : /\ arrivals[r].state = "admitted"
                             /\ arrivals[r].ip = ip
                             /\ arrivals[r].table = t}

\* C26: between two consecutive resets of the table the limiter admits at
\* most maxRequests requests of one client; a request that finds its
\* client's count at maxRequests is answered 429, does not reach the
\* handler and leaves the count as it was; a request whose reading of the
\* clock is more than window after the last reset empties the table for
\* every client at once, and no other request empties it.
C26_AtMostMaxRequestsPerWindow ==
    [][/\ \A ip \in ClientIPs : \A t \in 0 .. limiter'.resets :
             Cardinality(AdmittedIn(ip, t)') <= maxRequests
       /\ \A r \in DOMAIN arrivals :
             (arrivals[r].state = "arrived"
                 /\ arrivals'[r].state # "arrived") =>
                LET ip      == arrivals[r].ip
                    expired ==
                        arrivals[r].now - limiter.lastReset > window
                    count   == IF expired THEN 0
                               ELSE limiter.requestCounts[ip]
                IN  /\ expired =>
                          /\ limiter'.lastReset = arrivals[r].now
                          /\ limiter'.resets = limiter.resets + 1
                          /\ \A o \in ClientIPs \ {ip} :
                                limiter'.requestCounts[o] = 0
                    /\ ~expired =>
                          /\ UNCHANGED <<limiter.lastReset, limiter.resets>>
                          /\ \A o \in ClientIPs \ {ip} :
                                limiter'.requestCounts[o]
                                    = limiter.requestCounts[o]
                    /\ count >= maxRequests =>
                          /\ arrivals'[r].status = TooManyRequests
                          /\ ~arrivals'[r].handled
                          /\ limiter'.requestCounts[ip] = count
                    /\ count < maxRequests =>
                          /\ arrivals'[r].handled
                          /\ limiter'.requestCounts[ip] = count + 1]_vars

\* C26 witness: a client was refused after maxRequests admissions, and a
\* later request of the same client was admitted after a reset of the
\* table.
C26_Witness ==
    \E r, q \in DOMAIN arrivals :
        /\ arrivals[r].state = "refused"
        /\ Cardinality(AdmittedIn(arrivals[r].ip, arrivals[r].table))
              = maxRequests
        /\ arrivals[q].state = "admitted"
        /\ arrivals[q].ip = arrivals[r].ip
        /\ arrivals[q].table > arrivals[r].table


\* ------------------------------------------------------------- catalogue
\* C25: no two Collection rows of the store have the same (name, author)
\* pair, whatever the interleaving of AddCollection and UpdateCollection
\* calls.
C25_NameAuthorUnique ==
    \A c, d \in DOMAIN collectionStore :
        (/\ collectionStore[c].name = collectionStore[d].name
         /\ collectionStore[c].author = collectionStore[d].author) => c = d


\* C24: when the goroutine of AddBook / DeleteBook calls the stock counter
\* for a collection id that matches no row and gets "No book updated", the
\* cache is left as it was and the attempt is counted as failed: retries
\* goes up by one, and the goroutine calls again unless that was its last
\* retry.
C24_NoRowCountsAsFailure ==
    [][\A t \in DOMAIN tasks :
          (/\ tasks[t].op \in {"AddBook", "DeleteBook"}
           /\ tasks[t].pc = "inc"
           /\ tasks[t].id \notin DOMAIN collectionStore
           /\ tasks'[t] # tasks[t]
           /\ tasks'[t].status = "NoBookUpdated")
          => /\ collectionCache' = collectionCache
             /\ tasks'[t].retries = tasks[t].retries + 1
             /\ tasks'[t].pc = "inc" \/ tasks'[t].retries = RetryLimit]_vars


\* Book rows of a collection
BooksOf(c) == {b \in DOMAIN bookStore : bookStore[b].collection_id = c}

CachedTotal(entry) == Unmarshal("collection", entry.json).TotalBooks

\* C23: when a DecrementAvailableBooks call that found a cached Collection
\* under the key at its start has updated the store, and none of its cache
\* round trips failed, then as it returns the key holds a Collection whose
\* TotalBooks is the cached value at the start plus the amount.
C23_CachedCounterMoved ==
    [][\A t \in DOMAIN tasks :
          (/\ tasks[t].op = "DecrementAvailableBooks"
           /\ tasks[t].pc \in {"get", "set"}
           /\ CacheHit("collection", tasks[t].before)
           /\ tasks'[t].pc = "done"
           /\ tasks'[t].status = "OK"
           /\ tasks'[t].failed = {})
          => /\ CacheHit("collection", collectionCache'[tasks[t].id])
             /\ CachedTotal(collectionCache'[tasks[t].id])
                   = CachedTotal(tasks[t].before) + tasks[t].amount]_vars

\* a call has returned success that found a cached Collection at its start
\* and met no failure; the key holds the earlier counter moved by the amount
C23_Witness ==
    \E t \in DOMAIN tasks :
        /\ tasks[t].op = "DecrementAvailableBooks"
        /\ tasks[t].pc = "done"
        /\ tasks[t].status = "OK"
        /\ tasks[t].failed = {}
        /\ CacheHit("collection", tasks[t].before)
        /\ CacheHit("collection", collectionCache[tasks[t].id])
        /\ CachedTotal(collectionCache[tasks[t].id])
              = CachedTotal(tasks[t].before) + tasks[t].amount


\* C28: when FindById or a stock call reads, with a GET that does not
\* fail, a key that holds a payload that cannot be decoded, the key no
\* longer holds that payload after the step, whether or not the store has
\* the row.
C28_UndecodableEntryIsDeleted ==
    [][/\ \A id \in CollIds :
             (/\ collectionCache[id] = Garbled
              /\ svc' # svc
              /\ svc'.kind = "collection" /\ svc'.id = id
              /\ "get" \notin svc'.failed)
             => collectionCache'[id] # Garbled
       /\ \A t \in DOMAIN tasks :
             (/\ tasks[t].pc = "get"
              /\ collectionCache[tasks[t].id] = Garbled
              /\ tasks'[t] # tasks[t]
              /\ "get" \notin tasks'[t].failed)
             => collectionCache'[tasks[t].id] # Garbled]_vars


\* --------------------------------------------------- the request's context
\* C31: when the Borrow insert of BorrowBook, or the Borrow update of
\* ReturnBook, has failed and the request's context is done, the
\* compensating Book update that follows takes effect: after it the Book is
\* not flagged (BorrowBook), or flagged again (ReturnBook).
C31_CompensationSurvivesContext ==
    [][\A p \in Procs :
          /\ (/\ frame[p].pc = "compensate"
              /\ Done(p)
              /\ frame'[p].pc = "release")
             => ~bookStore'[frame[p].book.Id].is_borrowed
          /\ (/\ frame[p].pc = "recompensate"
              /\ frame[p].borrowRecord.BookId \in DOMAIN bookStore
              /\ Done(p)
              /\ frame'[p].pc = "returned")
             => bookStore'[frame[p].borrowRecord.BookId].is_borrowed]_vars


\* C34: a ReturnBook whose load of the Borrow record failed with an error
\* other than not-found ends there with an error status: it issues no
\* store write and leaves stores and available sets as they are; a record
\* that is absent ends the call with NotFound, without any write.
C34_FailedLoadEndsReturn ==
    [][\A p \in Procs :
          /\ (/\ frame'[p].in.op = "ReturnBook"
              /\ "FindById" \in frame'[p].failed)
             => /\ UNCHANGED <<stores, availableBooks>>
                /\ frame'[p].issued = {}
                /\ frame'[p].pc = "returned"
                /\ frame'[p].resp.status \notin {"OK", None}
          /\ (/\ frame[p].pc = "load"
              /\ frame'[p].pc = "returned"
              /\ frame[p].in.BorrowId \notin DOMAIN borrowStore
              /\ "FindById" \notin frame'[p].failed)
             => /\ UNCHANGED <<stores, availableBooks>>
                /\ frame'[p].issued = {}
                /\ frame'[p].resp.status = "NotFound"]_vars


\* --------------------------------------------------------- deleted books
\* C35: every Borrow row that is inserted carries the id of a Book that has
\* a row in the Book store.
C35_BorrowedBookHasRow ==
    [][\A i \in DOMAIN borrowStore' \ DOMAIN borrowStore :
          borrowStore'[i].BookId \in DOMAIN bookStore]_vars


\* ------------------------------------------------------------ step order
\* C32: within one call a step is reached only after the step before it has
\* returned success.  BorrowBook: the Book update after both lookups, the
\* Borrow insert after the Book update, the final removal from the
\* available set after the insert.  ReturnBook: the Book update after the
\* load of the Borrow row, the Borrow update after the Book update, the add
\* to the available set after the Borrow update.
C32_StepsInOrder ==
    \A p \in Procs :
        /\ frame[p].pc = "mark" =>
              /\ frame[p].gc = "done" /\ frame[p].gb = "done"
              /\ frame[p].collectionErr = NoErr /\ frame[p].bookErr = NoErr
        /\ frame[p].pc = "create" => "UpdateBook" \in frame[p].issued
        /\ frame[p].pc = "finalize" => "Insert" \in frame[p].issued
        /\ frame[p].pc = "unmark" => "FindById" \notin frame[p].failed
        /\ frame[p].pc = "close" => "UpdateBook" \in frame[p].issued
        /\ frame[p].pc = "put" => "UpdateBorrow" \in frame[p].issued


\* ------------------------------------------------------------ stock task
StockOps == {"AddBook", "DeleteBook"}

\* C33: the goroutine of AddBook / DeleteBook starts a stock call only when
\* it has made fewer than three, ends with the first call that returns
\* success, and always comes to an end; the call that wrote the Book
\* answers success whatever becomes of the goroutine.
C33_StockTaskBounded ==
    /\ [][\A t \in Workers :
             (tasks[t].op \in StockOps /\ tasks'[t] # tasks[t]) =>
                /\ tasks[t].pc = "inc" => tasks[t].attempts < RetryLimit
                /\ (tasks[t].pc # "done" /\ tasks'[t].status = "OK")
                      => tasks'[t].pc = "done"]_vars
    /\ [](\A t \in Workers :
             (tasks[t].op \in StockOps /\ tasks[t].amount # 0)
                => tasks[t].resp = "OK")
    /\ \A t \in Workers :
          (tasks[t].op \in StockOps /\ tasks[t].pc # "done")
             ~> tasks[t].pc = "done"

\* a goroutine running its third call after two that failed
C33_Witness ==
    \E t \in Workers :
        /\ tasks[t].op \in StockOps
        /\ tasks[t].pc = "get"
        /\ tasks[t].attempts = RetryLimit
        /\ tasks[t].retries = RetryLimit - 1
        /\ tasks[t].resp = "OK"


\* ------------------------------------------------------- available set
\* C39: every member of a collection's cached available set is a book id:
\* no add of GetAvailableBook or of the Borrow service's updateCache puts
\* any other value into the set, so a set without book ids is empty.
C39_MembersAreBookIds ==
    \A c \in CollIds : availableBooks[c] \subseteq BookIds


\* -------------------------------------------------------------- batcher
\* C40: building the downstream request never fails on an absent sort: no
\* flush ends in a panic, whether the first request of its batch carries
\* no sort parameter or the batch is one of the book batcher.
C40_FlushSurvivesNilSort ==
    /\ ~batcher.crashed
    /\ \A f \in DOMAIN flushes :
          /\ flushes[f].pc # "panic"
          /\ ~BuildFilterAndSort(flushes[f].params).panic

\* C36: whenever pending holds a request a timer is armed, a result once
\* delivered to a waiter is not replaced, and every request appended to
\* pending eventually returns from GetBatch with the result of its batch.
C36_EveryWaiterIsAnswered ==
    /\ [](Len(batcher.pending) > 0 => batcher.timer = "armed")
    /\ [][\A w \in DOMAIN waiters :
             waiters[w].got # NoResult
                => waiters'[w].got = waiters[w].got]_vars
    /\ \A w \in 1 .. MaxRequests :
          (Len(waiters) >= w /\ waiters[w].state = "waiting")
             ~> (Len(waiters) >= w /\ waiters[w].state = "returned"
                                   /\ waiters[w].got # NoResult)


\* C37: when the DecrementAvailableBooks calls made at the same time on a
\* collection have all returned, none of their round trips having failed,
\* a cached Collection under the key has the total_books of the store row.
C37_CachedTotalInLockstep ==
    AtRest =>
        \A id \in DOMAIN collectionStore :
            CacheHit("collection", collectionCache[id]) =>
                CachedTotal(collectionCache[id])
                    = collectionStore[id].total_books


\* C38: a lookup of a Book that starts when an update of that Book has
\* returned success, its invalidation not having failed, returns the row
\* the update returned, whatever lookups of the Book were in progress
\* while the update ran.
C38_LookupAfterUpdateIsFresh ==
    [][(/\ svc.op = "Update" /\ svc.kind = "book"
        /\ svc.status = "OK" /\ svc.failed = {}
        /\ svc'.op = "FindById" /\ svc'.kind = "book"
        /\ svc'.id = svc.id /\ svc'.failed = {}) =>
           /\ svc'.status = "OK"
           /\ svc'.entity = svc.entity]_vars

====
